---- MODULE Spec2Model ----
(***************************************************************************)
(* Model of the CV-analyzer backend (src/server.js): the recovery of a     *)
(* JSON value from the raw model reply (extractAndParseJSON), the response *)
(* normalizer (ensureAnalysisShape) and the handler of                     *)
(* POST /api/analyze-cv-multiple.                                          *)
(*                                                                         *)
(* Text is a sequence of one-character strings.  Characters that TLA+      *)
(* cannot write literally carry their code point as a name ("U+201C").     *)
(* A JavaScript value is a record with the same six fields whatever its    *)
(* kind, so that any two values can be compared.                           *)
(***************************************************************************)
EXTENDS Integers, Sequences, FiniteSets, TLC

(***************************************************************************)
(* Characters                                                              *)
(***************************************************************************)
QUOTE == "\""
BSLASH == "\\"
BOM == "U+FEFF"
LDQUO == "U+201C"
RDQUO == "U+201D"
LOWDQUO == "U+201E"
LSQUO == "U+2018"
RSQUO == "U+2019"
ELLIPSIS == "U+2026"
UESC == "U+XXXX"
BACKTICK == "U+0060"

\* white space of the JSON grammar
JSONWS == {" ", "\t", "\n", "\r"}
\* white space of String.prototype.trim and of the regular expression \s
JSWS == {" ", "\t", "\n", "\r", "\f", BOM, "U+00A0", "U+000B"}
\* characters below U+0020, which a JSON string literal may not contain
CTRL == {"\t", "\n", "\r", "\f", "U+000B"}
DIGITS == {"0", "1", "2", "3", "4", "5", "6", "7", "8", "9"}
HEXDIGITS == DIGITS \cup {"a", "b", "c", "d", "e", "f", "A", "B", "C", "D", "E", "F"}

(***************************************************************************)
(* JavaScript values                                                       *)
(***************************************************************************)
Val(k, b, n, s, it, ks) ==
  [kind |-> k, b |-> b, num |-> n, str |-> s, items |-> it, keys |-> ks]
Undefined == Val("undefined", FALSE, 0, <<>>, <<>>, <<>>)
Null == Val("null", FALSE, 0, <<>>, <<>>, <<>>)
Bool(b) == Val("boolean", b, 0, <<>>, <<>>, <<>>)
\* a number the program computes
Num(n) == Val("number", FALSE, n, <<>>, <<>>, <<>>)
\* a number read from JSON text keeps its lexeme
NumLex(lex) == Val("number", FALSE, 0, lex, <<>>, <<>>)
Str(s) == Val("string", FALSE, 0, s, <<>>, <<>>)
Arr(items) == Val("array", FALSE, 0, <<>>, items, <<>>)
Obj(keys, items) == Val("object", FALSE, 0, <<>>, items, keys)
EmptyObj == Obj(<<>>, <<>>)

IsArray(v) == v.kind = "array"
IsString(v) == v.kind = "string"

\* the mantissa of a number lexeme has no digit other than 0
LexIsZero(lex) ==
  LET stop == {i \in 1..Len(lex) : lex[i] \in {"e", "E"}}
      last == IF stop = {} THEN Len(lex)
              ELSE (CHOOSE i \in stop : \A j \in stop : i <= j) - 1
  IN \A i \in 1..last : lex[i] \in {"0", "-", "."}

\* ToBoolean
Truthy(v) ==
  CASE v.kind = "undefined" -> FALSE
    [] v.kind = "null" -> FALSE
    [] v.kind = "boolean" -> v.b
    [] v.kind = "number" -> IF Len(v.str) = 0 THEN v.num # 0 ELSE ~LexIsZero(v.str)
    [] v.kind = "string" -> Len(v.str) > 0
    [] OTHER -> TRUE

\* the decimal digits of a natural number
RECURSIVE Digits(_)
Digits(n) ==
  IF n < 10 THEN <<(<<"0", "1", "2", "3", "4", "5", "6", "7", "8", "9">>)[n + 1]>>
  ELSE Append(Digits(n \div 10), Digits(n % 10)[1])

\* String(v) for undefined, null, booleans, strings, the natural numbers the
\* program computes, and arrays of these
RECURSIVE JSString(_)
JSString(v) ==
  CASE v.kind = "undefined" -> <<"u", "n", "d", "e", "f", "i", "n", "e", "d">>
    [] v.kind = "null" -> <<"n", "u", "l", "l">>
    [] v.kind = "boolean" -> IF v.b THEN <<"t", "r", "u", "e">> ELSE <<"f", "a", "l", "s", "e">>
    [] v.kind = "number" -> IF Len(v.str) = 0 THEN Digits(v.num) ELSE v.str
    [] v.kind = "string" -> v.str
    [] v.kind = "array" ->
         IF Len(v.items) = 0 THEN <<>>
         ELSE LET head == IF v.items[1].kind \in {"null", "undefined"} THEN <<>>
                          ELSE JSString(v.items[1])
              IN IF Len(v.items) = 1 THEN head
                 ELSE head \o <<",">> \o JSString(Arr(Tail(v.items)))
    [] OTHER -> <<"[", "o", "b", "j", "e", "c", "t", " ", "O", "b", "j", "e", "c", "t", "]">>

\* v.key for a value that is neither null nor undefined
Get(v, key) ==
  IF v.kind = "object" /\ \E i \in 1..Len(v.keys) : v.keys[i] = key
  THEN v.items[CHOOSE i \in 1..Len(v.keys) : v.keys[i] = key]
  ELSE Undefined

\* v?.key
OptGet(v, key) == IF v.kind \in {"null", "undefined"} THEN Undefined ELSE Get(v, key)

\* obj.key = val (the key keeps its place when it is already there)
Put(o, key, val) ==
  IF \E i \in 1..Len(o.keys) : o.keys[i] = key
  THEN [o EXCEPT !.items[CHOOSE i \in 1..Len(o.keys) : o.keys[i] = key] = val]
  ELSE [o EXCEPT !.keys = Append(@, key), !.items = Append(@, val)]

(***************************************************************************)
(* JSON.parse as a character-driven pushdown automaton (ECMA-404 grammar) *)
(***************************************************************************)
JsonStart ==
  [mode |-> "value", stack |-> <<>>, buf |-> <<>>, forKey |-> FALSE,
   rest |-> <<>>, litv |-> Null, res |-> Undefined, has |-> FALSE, ucnt |-> 0]

JsonErr(st) == [st EXCEPT !.mode = "err"]

\* a complete value v goes to the enclosing container, or is the result
JsonEmit(st, v) ==
  LET n == Len(st.stack) IN
  IF n = 0 THEN [st EXCEPT !.mode = "after", !.res = v, !.has = TRUE]
  ELSE IF st.stack[n].fk = "array"
       THEN [st EXCEPT !.mode = "after", !.stack[n].items = Append(@, v)]
       ELSE LET f == st.stack[n]
                o == Put(Obj(f.keys, f.items), f.pkey, v)
            IN [st EXCEPT !.mode = "after", !.stack[n].keys = o.keys,
                          !.stack[n].items = o.items]

JsonPush(st, fk, mode) ==
  [st EXCEPT !.mode = mode,
             !.stack = Append(@, [fk |-> fk, items |-> <<>>, keys |-> <<>>, pkey |-> <<>>])]

JsonClose(st) ==
  LET n == Len(st.stack)
      f == st.stack[n]
      v == IF f.fk = "array" THEN Arr(f.items) ELSE Obj(f.keys, f.items)
  IN JsonEmit([st EXCEPT !.stack = SubSeq(@, 1, n - 1)], v)

JsonNumModes == {"num_minus", "num_zero", "num_int", "num_dot", "num_frac",
                 "num_e", "num_esign", "num_exp"}
JsonNumDone == {"num_zero", "num_int", "num_frac", "num_exp"}

\* the character after a complete value
JsonAfter(st, ch) ==
  LET n == Len(st.stack) IN
  IF ch \in JSONWS THEN st
  ELSE IF n = 0 THEN JsonErr(st)
  ELSE IF st.stack[n].fk = "array"
       THEN IF ch = "," THEN [st EXCEPT !.mode = "value"]
            ELSE IF ch = "]" THEN JsonClose(st) ELSE JsonErr(st)
       ELSE IF ch = "," THEN [st EXCEPT !.mode = "key"]
            ELSE IF ch = "}" THEN JsonClose(st) ELSE JsonErr(st)

\* the first character of a value
JsonValue(st, ch) ==
  IF ch \in JSONWS THEN st
  ELSE IF ch = "{" THEN JsonPush(st, "object", "obj_first")
  ELSE IF ch = "[" THEN JsonPush(st, "array", "arr_first")
  ELSE IF ch = QUOTE THEN [st EXCEPT !.mode = "str", !.buf = <<>>, !.forKey = FALSE]
  ELSE IF ch = "-" THEN [st EXCEPT !.mode = "num_minus", !.buf = <<ch>>]
  ELSE IF ch = "0" THEN [st EXCEPT !.mode = "num_zero", !.buf = <<ch>>]
  ELSE IF ch \in DIGITS THEN [st EXCEPT !.mode = "num_int", !.buf = <<ch>>]
  ELSE IF ch = "t" THEN [st EXCEPT !.mode = "lit", !.rest = <<"r", "u", "e">>, !.litv = Bool(TRUE)]
  ELSE IF ch = "f" THEN [st EXCEPT !.mode = "lit", !.rest = <<"a", "l", "s", "e">>, !.litv = Bool(FALSE)]
  ELSE IF ch = "n" THEN [st EXCEPT !.mode = "lit", !.rest = <<"u", "l", "l">>, !.litv = Null]
  ELSE IF ch = "]" /\ st.mode = "arr_first" THEN JsonClose(st)
  ELSE JsonErr(st)

JsonString(st, ch) ==
  IF ch = QUOTE
  THEN IF st.forKey
       THEN [st EXCEPT !.mode = "colon", !.stack[Len(st.stack)].pkey = st.buf]
       ELSE JsonEmit(st, Str(st.buf))
  ELSE IF ch = BSLASH THEN [st EXCEPT !.mode = "esc"]
  ELSE IF ch \in CTRL THEN JsonErr(st)
  ELSE [st EXCEPT !.buf = Append(@, ch)]

JsonEscape(st, ch) ==
  LET put(c) == [st EXCEPT !.mode = "str", !.buf = Append(@, c)] IN
  CASE ch = QUOTE -> put(QUOTE)
    [] ch = BSLASH -> put(BSLASH)
    [] ch = "/" -> put("/")
    [] ch = "b" -> put("U+0008")
    [] ch = "f" -> put("\f")
    [] ch = "n" -> put("\n")
    [] ch = "r" -> put("\r")
    [] ch = "t" -> put("\t")
    [] ch = "u" -> [st EXCEPT !.mode = "uhex", !.ucnt = 0]
    [] OTHER -> JsonErr(st)

\* \uXXXX stands for one character, written UESC whatever the digits
JsonUHex(st, ch) ==
  IF ch \notin HEXDIGITS THEN JsonErr(st)
  ELSE IF st.ucnt = 3 THEN [st EXCEPT !.mode = "str", !.buf = Append(@, UESC)]
  ELSE [st EXCEPT !.ucnt = @ + 1]

JsonNumber(st, ch) ==
  LET go(m) == [st EXCEPT !.mode = m, !.buf = Append(@, ch)]
      done == JsonAfter(JsonEmit(st, NumLex(st.buf)), ch)
  IN
  CASE st.mode = "num_minus" ->
         IF ch = "0" THEN go("num_zero")
         ELSE IF ch \in DIGITS THEN go("num_int") ELSE JsonErr(st)
    [] st.mode = "num_zero" ->
         IF ch = "." THEN go("num_dot")
         ELSE IF ch \in {"e", "E"} THEN go("num_e") ELSE done
    [] st.mode = "num_int" ->
         IF ch \in DIGITS THEN go("num_int")
         ELSE IF ch = "." THEN go("num_dot")
         ELSE IF ch \in {"e", "E"} THEN go("num_e") ELSE done
    [] st.mode = "num_dot" -> IF ch \in DIGITS THEN go("num_frac") ELSE JsonErr(st)
    [] st.mode = "num_frac" ->
         IF ch \in DIGITS THEN go("num_frac")
         ELSE IF ch \in {"e", "E"} THEN go("num_e") ELSE done
    [] st.mode = "num_e" ->
         IF ch \in {"+", "-"} THEN go("num_esign")
         ELSE IF ch \in DIGITS THEN go("num_exp") ELSE JsonErr(st)
    [] st.mode = "num_esign" -> IF ch \in DIGITS THEN go("num_exp") ELSE JsonErr(st)
    [] OTHER -> IF ch \in DIGITS THEN go("num_exp") ELSE done

JsonLiteral(st, ch) ==
  IF ch # Head(st.rest) THEN JsonErr(st)
  ELSE IF Len(st.rest) = 1 THEN JsonEmit(st, st.litv)
  ELSE [st EXCEPT !.rest = Tail(@)]

JsonStep(st, ch) ==
  CASE st.mode = "err" -> st
    [] st.mode \in {"value", "arr_first"} -> JsonValue(st, ch)
    [] st.mode \in {"obj_first", "key"} ->
         IF ch \in JSONWS THEN st
         ELSE IF ch = QUOTE THEN [st EXCEPT !.mode = "str", !.buf = <<>>, !.forKey = TRUE]
         ELSE IF ch = "}" /\ st.mode = "obj_first" THEN JsonClose(st)
         ELSE JsonErr(st)
    [] st.mode = "colon" ->
         IF ch \in JSONWS THEN st
         ELSE IF ch = ":" THEN [st EXCEPT !.mode = "value"] ELSE JsonErr(st)
    [] st.mode = "after" -> JsonAfter(st, ch)
    [] st.mode = "str" -> JsonString(st, ch)
    [] st.mode = "esc" -> JsonEscape(st, ch)
    [] st.mode = "uhex" -> JsonUHex(st, ch)
    [] st.mode = "lit" -> JsonLiteral(st, ch)
    [] OTHER -> JsonNumber(st, ch)

\* the end of the text
JsonEnd(st) ==
  LET fin == IF st.mode \in JsonNumDone THEN JsonEmit(st, NumLex(st.buf)) ELSE st
  IN IF fin.mode = "after" /\ Len(fin.stack) = 0 /\ fin.has
     THEN [ok |-> TRUE, val |-> fin.res]
     ELSE [ok |-> FALSE, val |-> Undefined]


(***************************************************************************)
(* A loop over the characters of a text: Run(m, st, s, lo, hi) is the      *)
(* state after the loop body of machine m has seen s[lo], ..., s[hi] in    *)
(* that order, starting from state st.                                     *)
(***************************************************************************)
\* /,\s*(?=[} BACKTICK BACKTICK BACKTICK])/ : the characters the look-ahead accepts after the comma
TrailingCommaLookahead == {"}", BACKTICK}

\* candidate.replace(/,\s*(?=[} BACKTICK BACKTICK BACKTICK])/g, ''): a comma and the white space
\* after it are held back until the next character decides
CommaStep(st, ch) ==
  IF Len(st.hold) > 0 /\ ch \in JSWS THEN [st EXCEPT !.hold = Append(@, ch)]
  ELSE LET kept == IF Len(st.hold) > 0 /\ ch \in TrailingCommaLookahead
                   THEN st.out ELSE st.out \o st.hold
       IN IF ch = "," THEN [out |-> kept, hold |-> <<ch>>]
          ELSE [out |-> Append(kept, ch), hold |-> <<>>]

\* candidate.replace(/\/\/[^\n\r]*/g, '')
LineCommentStep(st, ch) ==
  CASE st.mode = "comment" ->
         IF ch \in {"\n", "\r"} THEN [out |-> Append(st.out, ch), mode |-> "text"] ELSE st
    [] st.mode = "slash" ->
         IF ch = "/" THEN [st EXCEPT !.mode = "comment"]
         ELSE [out |-> st.out \o <<"/", ch>>, mode |-> "text"]
    [] OTHER ->
         IF ch = "/" THEN [st EXCEPT !.mode = "slash"]
         ELSE [st EXCEPT !.out = Append(@, ch)]

\* candidate.replace(/\/\*[\s\S]*?\*\//g, ''): the text from "/*" on is held
\* back until "*/" closes it; without "*/" nothing matches and it stays
BlockCommentStep(st, ch) ==
  CASE st.mode = "text" ->
         IF ch = "/" THEN [st EXCEPT !.mode = "slash"]
         ELSE [st EXCEPT !.out = Append(@, ch)]
    [] st.mode = "slash" ->
         IF ch = "*" THEN [st EXCEPT !.mode = "comment", !.hold = <<"/", "*">>]
         ELSE IF ch = "/" THEN [st EXCEPT !.out = Append(@, "/")]
         ELSE [st EXCEPT !.out = @ \o <<"/", ch>>, !.mode = "text"]
    [] st.mode = "comment" ->
         [st EXCEPT !.hold = Append(@, ch), !.mode = IF ch = "*" THEN "star" ELSE "comment"]
    [] OTHER ->
         IF ch = "/" THEN [st EXCEPT !.hold = <<>>, !.mode = "text"]
         ELSE [st EXCEPT !.hold = Append(@, ch), !.mode = IF ch = "*" THEN "star" ELSE "comment"]

\* findBalancedJSON without the escape flag: a backslash inside a string is an
\* ordinary character
FindBalancedStep_NoEscape(st, ch) ==
  IF st.done THEN st
  ELSE IF st.inStr
  THEN IF ch = QUOTE THEN [st EXCEPT !.inStr = FALSE, !.pos = @ + 1]
       ELSE [st EXCEPT !.pos = @ + 1]
  ELSE IF ch = QUOTE THEN [st EXCEPT !.inStr = TRUE, !.pos = @ + 1]
  ELSE LET up == IF ch = st.opener THEN st.depth + 1 ELSE st.depth
           down == IF ch = st.closer THEN up - 1 ELSE up
       IN IF down = 0 THEN [st EXCEPT !.depth = down, !.done = TRUE, !.endIdx = st.pos]
          ELSE [st EXCEPT !.depth = down, !.pos = @ + 1]

\* the body of the second loop of findBalancedJSON; st.pos is the loop index
\* and st.done records that the loop has returned a span ending at st.endIdx
FindBalancedStep(st, ch) ==
  IF st.done THEN st
  ELSE IF st.inStr
  THEN IF st.escape THEN [st EXCEPT !.escape = FALSE, !.pos = @ + 1]
       ELSE IF ch = BSLASH THEN [st EXCEPT !.escape = TRUE, !.pos = @ + 1]
       ELSE IF ch = QUOTE THEN [st EXCEPT !.inStr = FALSE, !.pos = @ + 1]
       ELSE [st EXCEPT !.pos = @ + 1]
  ELSE IF ch = QUOTE THEN [st EXCEPT !.inStr = TRUE, !.pos = @ + 1]
  ELSE LET up == IF ch = st.opener THEN st.depth + 1 ELSE st.depth
           down == IF ch = st.closer THEN up - 1 ELSE up
       IN IF down = 0 THEN [st EXCEPT !.depth = down, !.done = TRUE, !.endIdx = st.pos]
          ELSE [st EXCEPT !.depth = down, !.pos = @ + 1]

\* s.split(/\s+/): a run of white space ends the current piece
SplitStep(st, ch) ==
  IF ch \in JSWS
  THEN IF st.inWs THEN st
       ELSE [words |-> Append(st.words, st.cur), cur |-> <<>>, inWs |-> TRUE]
  ELSE [st EXCEPT !.cur = Append(@, ch), !.inWs = FALSE]

\* one character of raw.replace(/FENCE json|FENCE/g, ''): backticks are held
\* back until there are three of them, which are dropped; the letters of
\* "json" right after them are held back until the tag is complete, and are
\* dropped with it
FenceMarkStep(st, ch) ==
  LET tag == <<"j", "s", "o", "n">>
      text == st.out \o st.hold
  IN CASE st.mode = "ticks" /\ ch = BACKTICK ->
            IF Len(st.hold) = 2 THEN [out |-> st.out, hold |-> <<>>, mode |-> "tag"]
            ELSE [st EXCEPT !.hold = Append(@, ch)]
       [] st.mode = "tag" /\ ch = tag[Len(st.hold) + 1] ->
            IF Len(st.hold) = 3 THEN [out |-> st.out, hold |-> <<>>, mode |-> "text"]
            ELSE [st EXCEPT !.hold = Append(@, ch)]
       [] OTHER ->
            IF ch = BACKTICK THEN [out |-> text, hold |-> <<ch>>, mode |-> "ticks"]
            ELSE [out |-> Append(text, ch), hold |-> <<>>, mode |-> "text"]

Step(m, st, ch) ==
  CASE m = "json" -> JsonStep(st, ch)
    [] m = "fence" -> FenceMarkStep(st, ch)
    [] m = "split" -> SplitStep(st, ch)
    [] m = "balanced" -> FindBalancedStep(st, ch)
    [] m = "comma" -> CommaStep(st, ch)
    [] m = "line" -> LineCommentStep(st, ch)
    [] OTHER -> BlockCommentStep(st, ch)

RECURSIVE Run(_, _, _, _, _)
Run(m, st, s, lo, hi) ==
  IF lo > hi THEN st
  ELSE IF lo = hi THEN Step(m, st, s[lo])
  ELSE LET mid == (lo + hi) \div 2
           left == Run(m, st, s, lo, mid)
       IN \* the test makes TLC compute the left half before the right one
          IF DOMAIN left = {} THEN left ELSE Run(m, left, s, mid + 1, hi)

\* JSON.parse(text): [ok |-> FALSE, ...] stands for the SyntaxError
JSONparse(text) == JsonEnd(Run("json", JsonStart, text, 1, Len(text)))

StripTrailingCommas(s) ==
  LET st == Run("comma", [out |-> <<>>, hold |-> <<>>], s, 1, Len(s))
  IN st.out \o st.hold

StripLineComments(s) ==
  LET st == Run("line", [out |-> <<>>, mode |-> "text"], s, 1, Len(s))
  IN IF st.mode = "slash" THEN Append(st.out, "/") ELSE st.out

StripBlockComments(s) ==
  LET st == Run("block", [out |-> <<>>, hold |-> <<>>, mode |-> "text"], s, 1, Len(s))
  IN CASE st.mode = "slash" -> Append(st.out, "/")
       [] st.mode \in {"comment", "star"} -> st.out \o st.hold
       [] OTHER -> st.out

\* candidate.replace(/[\u201c\u201d\u201e\u201d]/g, '"').replace(/[\u2018\u2019]/g, "'")
StraightenQuotes(s) ==
  [i \in 1..Len(s) |->
     IF s[i] \in {LDQUO, RDQUO, LOWDQUO} THEN QUOTE
     ELSE IF s[i] \in {LSQUO, RSQUO} THEN "'" ELSE s[i]]

cleanAndParse(candidate) ==
  JSONparse(StripBlockComments(StripLineComments(StripTrailingCommas(StraightenQuotes(candidate)))))


(***************************************************************************)
(* String helpers                                                          *)
(***************************************************************************)
Min(S) == CHOOSE x \in S : \A y \in S : x <= y
Max(S) == 0 - Min({0 - x : x \in S})

\* s.indexOf(c) and s.lastIndexOf(c), 1-based, 0 when c does not occur
indexOf(s, c) ==
  LET at == {i \in 1..Len(s) : s[i] = c} IN IF at = {} THEN 0 ELSE Min(at)
lastIndexOf(s, c) ==
  LET at == {i \in 1..Len(s) : s[i] = c} IN IF at = {} THEN 0 ELSE Max(at)

\* s.trim()
trim(s) ==
  LET ink == {i \in 1..Len(s) : s[i] \notin JSWS}
  IN IF ink = {} THEN <<>> ELSE SubSeq(s, Min(ink), Max(ink))

\* s.slice(0, n)
sliceTo(s, n) == IF Len(s) > n THEN SubSeq(s, 1, n) ELSE s

startsWith(s, p) == Len(s) >= Len(p) /\ SubSeq(s, 1, Len(p)) = p
endsWith(s, p) == Len(s) >= Len(p) /\ SubSeq(s, Len(s) - Len(p) + 1, Len(s)) = p

FENCE == <<BACKTICK, BACKTICK, BACKTICK>>

\* t.replace(/^FENCE(?:json)?\s*/i, '') for a text that starts with the fence
StripOpeningFence(t) ==
  LET tag == Len(t) >= 7 /\ t[4] \in {"j", "J"} /\ t[5] \in {"s", "S"}
                         /\ t[6] \in {"o", "O"} /\ t[7] \in {"n", "N"}
      from == IF tag THEN 8 ELSE 4
      ink == {i \in from..Len(t) : t[i] \notin JSWS}
  IN IF ink = {} THEN <<>> ELSE SubSeq(t, Min(ink), Len(t))

\* t.replace(/FENCE$/i, '')
StripClosingFence(t) == IF endsWith(t, FENCE) THEN SubSeq(t, 1, Len(t) - 3) ELSE t

\* the text extractAndParseJSON works on: byte-order mark and white space
\* removed, then the code fence
Defence(input) ==
  LET t0 == trim(IF Len(input) > 0 /\ input[1] = BOM THEN Tail(input) ELSE input)
      t1 == IF startsWith(t0, FENCE) THEN StripClosingFence(StripOpeningFence(t0)) ELSE t0
  IN trim(t1)

(***************************************************************************)
(* extractAndParseJSON                                                     *)
(***************************************************************************)
NoSpan == [has |-> FALSE, text |-> <<>>]

findBalancedJSON(s) ==
  LET at == {i \in 1..Len(s) : s[i] \in {"{", "["}} IN
  IF at = {} THEN NoSpan
  ELSE LET firstIdx == Min(at)
           opener == s[firstIdx]
           closer == IF opener = "{" THEN "}" ELSE "]"
           st == Run("balanced",
                     [depth |-> 0, inStr |-> FALSE, escape |-> FALSE, done |-> FALSE,
                      endIdx |-> 0, pos |-> firstIdx, opener |-> opener, closer |-> closer],
                     s, firstIdx, Len(s))
       IN IF st.done THEN [has |-> TRUE, text |-> SubSeq(s, firstIdx, st.endIdx)]
          ELSE NoSpan

\* t.slice(t.indexOf(open), t.lastIndexOf(close) + 1), when the code takes it
naiveSlice(t, open, close) ==
  LET start == indexOf(t, open)
      end == lastIndexOf(t, close)
  IN IF start # 0 /\ end # 0 /\ end > start
     THEN [has |-> TRUE, text |-> SubSeq(t, start, end)]
     ELSE NoSpan

\* the naive object slice tried before the balanced span
RecoverySteps_ObjectFirst == <<"whole", "object", "balanced", "array">>

\* the recovery steps in the order the code tries them
RecoverySteps == <<"whole", "balanced", "object", "array">>

\* the recovery without the balanced span
Candidate_NoBalancedSpan(step, t) ==
  CASE step = "whole" -> [has |-> TRUE, text |-> t]
    [] step = "balanced" -> NoSpan
    [] step = "object" -> naiveSlice(t, "{", "}")
    [] OTHER -> naiveSlice(t, "[", "]")

\* the text a recovery step hands to cleanAndParse, if it has one
Candidate(step, t) ==
  CASE step = "whole" -> [has |-> TRUE, text |-> t]
    [] step = "balanced" -> findBalancedJSON(t)
    [] step = "object" -> naiveSlice(t, "{", "}")
    [] OTHER -> naiveSlice(t, "[", "]")

Failed == [ok |-> FALSE, val |-> Undefined]

\* one try { return cleanAndParse(...) } catch {}
TryStep(step, t) ==
  LET c == Candidate(step, t) IN IF c.has THEN cleanAndParse(c.text) ELSE Failed

\* steps k.. of the recovery, for the de-fenced text t
RECURSIVE RecoverFrom(_, _)
RecoverFrom(k, t) ==
  IF k > Len(RecoverySteps) THEN Failed
  ELSE LET r == TryStep(RecoverySteps[k], t)
       IN IF r.ok THEN r ELSE RecoverFrom(k + 1, t)

\* [ok |-> FALSE, ...] stands for the Error the function throws
extractAndParseJSON(input) ==
  IF Len(input) = 0 THEN Failed ELSE RecoverFrom(1, Defence(input))


(***************************************************************************)
(* ensureAnalysisShape                                                     *)
(***************************************************************************)
K_podsumowanie ==
  <<"p", "o", "d", "s", "u", "m", "o", "w", "a", "n", "i", "e">>
K_dopasowanie ==
  <<"d", "o", "p", "a", "s", "o", "w", "a", "n", "i", "e">>
K_mocne_strony ==
  <<"m", "o", "c", "n", "e", "_", "s", "t", "r", "o", "n", "y">>
K_obszary_do_poprawy ==
  <<"o", "b", "s", "z", "a", "r", "y", "_", "d", "o", "_", "p", "o", "p", "r", "a", "w", "y">>
K_pytania ==
  <<"p", "y", "t", "a", "n", "i", "a">>
K_kompetencje_miekkie ==
  <<"k", "o", "m", "p", "e", "t", "e", "n", "c", "j", "e", "_", "m", "i", "e", "k", "k", "i", "e">>
K_kompetencje_twarde ==
  <<"k", "o", "m", "p", "e", "t", "e", "n", "c", "j", "e", "_", "t", "w", "a", "r", "d", "e">>
K_rawResponse ==
  <<"r", "a", "w", "R", "e", "s", "p", "o", "n", "s", "e">>
K_dopasowanie_procentowe ==
  <<"d", "o", "p", "a", "s", "o", "w", "a", "n", "i", "e", "_", "p", "r", "o", "c", "e", "n", "t", "o", "w", "e">>
K_warning_mismatch ==
  <<"w", "a", "r", "n", "i", "n", "g", "_", "m", "i", "s", "m", "a", "t", "c", "h">>
K_meta ==
  <<"m", "e", "t", "a">>

\* x || d
OrElse(x, d) == IF Truthy(x) THEN x ELSE d

\* Array.isArray(x) ? x : []
ArrayOrEmpty(x) == IF IsArray(x) THEN x ELSE Arr(<<>>)

\* ensureAnalysisShape with the two lists of dopasowanie exchanged
ensureAnalysisShape_ListsExchanged(arg) ==
  LET a == IF arg.kind = "undefined" THEN EmptyObj ELSE arg
      dop == OptGet(a, K_dopasowanie)
      pyt == OptGet(a, K_pytania)
  IN IF a.kind = "null" THEN Failed
     ELSE [ok |-> TRUE,
           val |-> Obj(<<K_podsumowanie, K_dopasowanie, K_pytania>>,
                       <<OrElse(Get(a, K_podsumowanie), Str(<<>>)),
                         Obj(<<K_mocne_strony, K_obszary_do_poprawy>>,
                             <<ArrayOrEmpty(OptGet(dop, K_obszary_do_poprawy)),
                               ArrayOrEmpty(OptGet(dop, K_mocne_strony))>>),
                         Obj(<<K_kompetencje_miekkie, K_kompetencje_twarde>>,
                             <<ArrayOrEmpty(OptGet(pyt, K_kompetencje_miekkie)),
                               ArrayOrEmpty(OptGet(pyt, K_kompetencje_twarde))>>)>>)]

\* [ok |-> FALSE, ...] stands for the TypeError of reading a property of null
ensureAnalysisShape(arg) ==
  LET a == IF arg.kind = "undefined" THEN EmptyObj ELSE arg
      dop == OptGet(a, K_dopasowanie)
      pyt == OptGet(a, K_pytania)
  IN IF a.kind = "null" THEN Failed
     ELSE [ok |-> TRUE,
           val |-> Obj(<<K_podsumowanie, K_dopasowanie, K_pytania>>,
                       <<OrElse(Get(a, K_podsumowanie), Str(<<>>)),
                         Obj(<<K_mocne_strony, K_obszary_do_poprawy>>,
                             <<ArrayOrEmpty(OptGet(dop, K_mocne_strony)),
                               ArrayOrEmpty(OptGet(dop, K_obszary_do_poprawy))>>),
                         Obj(<<K_kompetencje_miekkie, K_kompetencje_twarde>>,
                             <<ArrayOrEmpty(OptGet(pyt, K_kompetencje_miekkie)),
                               ArrayOrEmpty(OptGet(pyt, K_kompetencje_twarde))>>)>>)]


(***************************************************************************)
(* Math.round((n / d) * 100) in IEEE-754 double precision, for integers    *)
(* 0 <= n <= d, d > 0.  A double is [mant, exp]: mant is the 53-bit        *)
(* significand as a sequence of bits, most significant first, and the      *)
(* value is mant * 2^exp.                                                  *)
(***************************************************************************)
MANTISSA == 53

\* n more bits of the binary expansion of r / t, for 0 <= r < t
RECURSIVE DivBits(_, _, _, _)
DivBits(r, t, n, acc) ==
  IF n = 0 THEN [bits |-> acc, rem |-> r]
  ELSE LET b == IF 2 * r >= t THEN 1 ELSE 0
           more == Append(acc, b)
       IN IF Len(more) = 0 THEN [bits |-> more, rem |-> r]
          ELSE DivBits(2 * r - b * t, t, n - 1, more)

BitsIncrement(bits) ==
  LET zeros == {i \in 1..Len(bits) : bits[i] = 0} IN
  IF zeros = {} THEN <<1>> \o [i \in 1..Len(bits) |-> 0]
  ELSE [i \in 1..Len(bits) |->
          IF i < Max(zeros) THEN bits[i] ELSE IF i = Max(zeros) THEN 1 ELSE 0]

\* round-to-nearest-even of bits * 2^exp (bits has a leading 1 and at least
\* MANTISSA bits; sticky tells that the exact value has further non-zero bits)
RoundToDouble(bits, exp, sticky) ==
  LET L == Len(bits)
      keep == SubSeq(bits, 1, MANTISSA)
      guard == IF L > MANTISSA THEN bits[MANTISSA + 1] ELSE 0
      more == sticky \/ \E i \in (MANTISSA + 2)..L : bits[i] = 1
      up == guard = 1 /\ (more \/ keep[MANTISSA] = 1)
      inc == BitsIncrement(keep)
      e == exp + (L - MANTISSA)
  IN IF ~up THEN [mant |-> keep, exp |-> e]
     ELSE IF Len(inc) > MANTISSA THEN [mant |-> SubSeq(inc, 1, MANTISSA), exp |-> e + 1]
     ELSE [mant |-> inc, exp |-> e]

\* the double nearest to n / d, for 0 < n < d
DoubleDivide(n, d) ==
  LET k == Min({j \in 1..20 : n * (2 ^ j) >= d})
      q == DivBits(n * (2 ^ k) - d, d, MANTISSA, <<1>>)
  IN RoundToDouble(q.bits, 0 - k - MANTISSA, q.rem # 0)

RECURSIVE ToBits(_)
ToBits(n) == IF n = 0 THEN <<>> ELSE Append(ToBits(n \div 2), n % 2)

RECURSIVE FromBits(_)
FromBits(bits) ==
  IF Len(bits) = 0 THEN 0
  ELSE 2 * FromBits(SubSeq(bits, 1, Len(bits) - 1)) + bits[Len(bits)]

\* the exact product bits * c
RECURSIVE BitsTimes(_, _, _, _, _)
BitsTimes(bits, c, i, carry, acc) ==
  IF i = 0 THEN ToBits(carry) \o acc
  ELSE LET v == bits[i] * c + carry
           more == <<v % 2>> \o acc
       IN IF Len(more) = 0 THEN more
          ELSE BitsTimes(bits, c, i - 1, v \div 2, more)

\* the double nearest to x * c, for a small positive integer c
DoubleTimes(x, c) ==
  RoundToDouble(BitsTimes(x.mant, c, MANTISSA, 0, <<>>), x.exp, FALSE)

\* Math.round(x) for a double 0 < x < 2^52: the integer part, plus one when
\* the fraction is at least one half
MathRound(x) ==
  LET ni == MANTISSA + x.exp
  IN IF ni < 0 THEN 0
     ELSE IF ni >= MANTISSA THEN FromBits(x.mant) * (2 ^ x.exp)
     ELSE FromBits(SubSeq(x.mant, 1, ni)) + x.mant[ni + 1]

\* Math.round((n / d) * 100)
RoundedPercent(n, d) ==
  IF n = 0 THEN 0
  ELSE IF n = d THEN 100
  ELSE MathRound(DoubleTimes(DoubleDivide(n, d), 100))


(***************************************************************************)
(* Keyword overlap: simpleKeywords and jaccard                             *)
(***************************************************************************)
UPPER ==
  <<"A", "B", "C", "D", "E", "F", "G", "H", "I", "J", "K", "L", "M", "N", "O", "P", "Q",
    "R", "S", "T", "U", "V", "W", "X", "Y", "Z", "U+0104", "U+0106", "U+0118", "U+0141",
    "U+0143", "U+00D3", "U+015A", "U+0179", "U+017B">>
LOWER ==
  <<"a", "b", "c", "d", "e", "f", "g", "h", "i", "j", "k", "l", "m", "n", "o", "p", "q",
    "r", "s", "t", "u", "v", "w", "x", "y", "z", "U+0105", "U+0107", "U+0119", "U+0142",
    "U+0144", "U+00F3", "U+015B", "U+017A", "U+017C">>

\* s.toLowerCase()
toLowerCase(s) ==
  [i \in 1..Len(s) |->
     IF \E k \in 1..Len(UPPER) : UPPER[k] = s[i]
     THEN LOWER[CHOOSE k \in 1..Len(UPPER) : UPPER[k] = s[i]] ELSE s[i]]

\* the characters /[^a-z\u0105\u0107...0-9\s]/g leaves in place
KeywordChars == {LOWER[k] : k \in 1..Len(LOWER)} \cup DIGITS \cup JSWS

\* s.split(/\s+/)
split(s) ==
  LET st == Run("split", [words |-> <<>>, cur |-> <<>>, inWs |-> FALSE], s, 1, Len(s))
  IN Append(st.words, st.cur)

STOPWORDS_PL ==
  {<<"i">>, <<"o", "r", "a", "z">>, <<"l", "u", "b">>, <<"a", "l", "b", "o">>, <<"w">>,
   <<"n", "a">>, <<"d", "o">>, <<"z">>, <<"z", "a">>, <<"o">>, <<"u">>, <<"j", "a", "k">>,
   <<"U+017C", "e">>, <<"t", "o">>, <<"j", "e", "s", "t">>, <<"s", "U+0105">>,
   <<"b", "y", "U+0107">>, <<"p", "r", "z", "y">>, <<"d", "l", "a">>, <<"o", "d">>,
   <<"p", "o">>, <<"p", "o", "d">>, <<"n", "a", "d">>, <<"b", "e", "z">>,
   <<"t", "e", "U+017C">>, <<"n", "p">>, <<"i", "t", "p">>, <<"i", "t", "d">>}

DefaultMinLen == 3

\* the entries of freq cut to topN without the sort
topByFrequency_Unsorted(words, topN) ==
  LET firsts == {i \in 1..Len(words) : \A j \in 1..(i - 1) : words[j] # words[i]}
      rank(i) == 1 + Cardinality({j \in firsts : j < i})
      n == IF Cardinality(firsts) < topN THEN Cardinality(firsts) ELSE topN
  IN [k \in 1..n |-> words[CHOOSE i \in firsts : rank(i) = k]]

\* [...freq.entries()].sort((a, b) => b[1] - a[1]).slice(0, topN).map(([w]) => w)
\* for the Map freq that counts the words: its entries are in the order of
\* first occurrence and the sort is stable
topByFrequency(words, topN) ==
  LET firsts == {i \in 1..Len(words) : \A j \in 1..(i - 1) : words[j] # words[i]}
      count(i) == Cardinality({j \in 1..Len(words) : words[j] = words[i]})
      rank(i) == 1 + Cardinality({j \in firsts :
                       count(j) > count(i) \/ (count(j) = count(i) /\ j < i)})
      n == IF Cardinality(firsts) < topN THEN Cardinality(firsts) ELSE topN
  IN [k \in 1..n |-> words[CHOOSE i \in firsts : rank(i) = k]]

\* text.toLowerCase().replace(/[^a-z...0-9\s]/g, ' ')
keywordText(s) ==
  [i \in 1..Len(s) |-> IF toLowerCase(<<s[i]>>)[1] \in KeywordChars
                       THEN toLowerCase(<<s[i]>>)[1] ELSE " "]

\* simpleKeywords(text, { minLen, topN })
simpleKeywords(s, minLen, topN) ==
  LET isWord(w) == Len(w) >= minLen /\ w \notin STOPWORDS_PL
  IN topByFrequency(SelectSeq(split(keywordText(s)), isWord), topN)

\* the overlap as a share of the first list only
jaccard_OverFirstList(arrA, arrB) ==
  LET A == {arrA[i] : i \in 1..Len(arrA)}
      B == {arrB[i] : i \in 1..Len(arrB)}
  IN [num |-> Cardinality(A \cap B), den |-> IF A = {} THEN 1 ELSE Cardinality(A)]

\* jaccard(arrA, arrB) as the fraction inter / uni
jaccard(arrA, arrB) ==
  LET A == {arrA[i] : i \in 1..Len(arrA)}
      B == {arrB[i] : i \in 1..Len(arrB)}
      uni == Cardinality(A \cup B)
  IN [num |-> Cardinality(A \cap B), den |-> IF uni = 0 THEN 1 ELSE uni]


(***************************************************************************)
(* Constants of the program                                                *)
(***************************************************************************)
LIMITS_cvChars == 20000
LIMITS_additionalDescriptionChars == 2000
LIMITS_jobSingleChars == 8000
LIMITS_jobTotalChars == 20000
LIMITS_summaryChars == 800
LIMITS_itemChars == 200
RawResponseChars == 2000
KeywordTopN == 80
LowOverlapPct == 10
LowOverlapCap == 35
MidOverlapPct == 20
MidOverlapCap == 50

\* clampText that keeps the marker within max characters
clampText_MarkerWithinCap(str, max) ==
  IF Len(str) > max THEN Append(SubSeq(str, 1, max - 1), ELLIPSIS) ELSE str

\* clampText(str, max) for a text
clampText(str, max) == IF Len(str) > max THEN Append(SubSeq(str, 1, max), ELLIPSIS) ELSE str

K_industry ==
  <<"i", "n", "d", "u", "s", "t", "r", "y">>
K_role_hint ==
  <<"r", "o", "l", "e", "_", "h", "i", "n", "t">>
K_seniority ==
  <<"s", "e", "n", "i", "o", "r", "i", "t", "y">>
K_ab_variant ==
  <<"a", "b", "_", "v", "a", "r", "i", "a", "n", "t">>
K_industry_cv ==
  <<"i", "n", "d", "u", "s", "t", "r", "y", "_", "c", "v">>
K_industry_jd ==
  <<"i", "n", "d", "u", "s", "t", "r", "y", "_", "j", "d">>
K_industry_effective ==
  <<"i", "n", "d", "u", "s", "t", "r", "y", "_", "e", "f", "f", "e", "c", "t", "i",
    "v", "e">>
K_role_cv ==
  <<"r", "o", "l", "e", "_", "c", "v">>
K_role_jd ==
  <<"r", "o", "l", "e", "_", "j", "d">>
K_kw_overlap_pct ==
  <<"k", "w", "_", "o", "v", "e", "r", "l", "a", "p", "_", "p", "c", "t">>

\* 'Nie udało się pobrać treści ogłoszenia.'
FETCH_SENTINEL ==
  <<"N", "i", "e", " ", "u", "d", "a", "U+0142", "o", " ", "s", "i", "U+0119", " ",
    "p", "o", "b", "r", "a", "U+0107", " ", "t", "r", "e", "U+015B", "c", "i", " ",
    "o", "g", "U+0142", "o", "s", "z", "e", "n", "i", "a", ".">>
\* 'Brak ogłoszeń lub nie udało się pobrać treści.'
NO_POSTINGS ==
  <<"B", "r", "a", "k", " ", "o", "g", "U+0142", "o", "s", "z", "e", "U+0144", " ",
    "l", "u", "b", " ", "n", "i", "e", " ", "u", "d", "a", "U+0142", "o", " ", "s",
    "i", "U+0119", " ", "p", "o", "b", "r", "a", "U+0107", " ", "t", "r", "e",
    "U+015B", "c", "i", ".">>
\* the separator of jobDescriptions.join
JD_SEPARATOR ==
  <<"\n", "\n", "-", "-", "-", "\n", "\n">>
\* 'Nie udało się poprawnie sparsować odpowiedzi modelu. Surowa odpowiedź (skrót) w polu rawResponse.'
PARSE_FAILED_SUMMARY ==
  <<"N", "i", "e", " ", "u", "d", "a", "U+0142", "o", " ", "s", "i", "U+0119", " ",
    "p", "o", "p", "r", "a", "w", "n", "i", "e", " ", "s", "p", "a", "r", "s", "o",
    "w", "a", "U+0107", " ", "o", "d", "p", "o", "w", "i", "e", "d", "z", "i", " ",
    "m", "o", "d", "e", "l", "u", ".", " ", "S", "u", "r", "o", "w", "a", " ", "o",
    "d", "p", "o", "w", "i", "e", "d", "U+017A", " ", "(", "s", "k", "r", "U+00F3",
    "t", ")", " ", "w", " ", "p", "o", "l", "u", " ", "r", "a", "w", "R", "e", "s",
    "p", "o", "n", "s", "e", ".">>
INNE ==
  <<"I", "n", "n", "e">>
FREE ==
  <<"f", "r", "e", "e">>

\* arr.join(sep)
RECURSIVE join(_, _)
join(arr, sep) ==
  IF Len(arr) = 0 THEN <<>>
  ELSE IF Len(arr) = 1 THEN arr[1]
  ELSE arr[1] \o sep \o join(Tail(arr), sep)

\* a !== b: objects and arrays are compared by identity, and two values that
\* come from different JSON texts are never the same object
StrictNotEqual(a, b) == a.kind \in {"object", "array"} \/ a # b

(***************************************************************************)
(* POST /api/analyze-cv-multiple: the synchronous code between two awaits  *)
(***************************************************************************)
\* plan, numSoft and numHard (lines 457 and 486-488)
PlanOf(bodyPlan) == IF IsString(bodyPlan) THEN bodyPlan.str ELSE FREE
\* the comparison without toLowerCase
IsFree_CaseSensitive(plan) == plan = FREE
IsFree(plan) == toLowerCase(plan) = FREE
NumSoft(plan) == IF IsFree(plan) THEN 2 ELSE 7
NumHard(plan) == IF IsFree(plan) THEN 2 ELSE 10
\* POST /api/generate-questions: const { plan = 'free' } = req.body || {} and
\* String(plan) (lines 400 and 403)
PlanOfQuestions(bodyPlan) == IF bodyPlan = Undefined THEN FREE ELSE JSString(bodyPlan)

\* kwOverlapPct (lines 482-484)
KwOverlapPct(cvText, combinedJD) ==
  LET j == jaccard(simpleKeywords(cvText, DefaultMinLen, KeywordTopN),
                   simpleKeywords(combinedJD, DefaultMinLen, KeywordTopN))
  IN RoundedPercent(j.num, j.den)

\* effectiveIndustry (lines 476-479); the classes are not null
EffectiveIndustry(cvClass, jdClass, selectedIndustry) ==
  LET jdi == Get(jdClass, K_industry)
      sel == IF IsString(selectedIndustry) THEN selectedIndustry.str ELSE <<>>
  IN IF Truthy(jdi) /\ StrictNotEqual(jdi, Str(INNE)) THEN jdi
     ELSE IF Len(sel) > 0 /\ Len(trim(sel)) > 0 THEN Str(trim(sel))
     ELSE OrElse(Get(cvClass, K_industry), Str(INNE))

\* the placeholder with the whole reply as rawResponse
Shape_WholeReply(parsedReply, raw) ==
  LET shapedReply == IF parsedReply.ok THEN ensureAnalysisShape(parsedReply.val) ELSE Failed
  IN IF shapedReply.ok THEN shapedReply.val
     ELSE Put(Put(ensureAnalysisShape(EmptyObj).val,
                  K_podsumowanie, Str(PARSE_FAILED_SUMMARY)),
              K_rawResponse, Str(raw))

\* the try/catch of lines 528-537, given what extractAndParseJSON returned
Shape(parsedReply, raw) ==
  LET shapedReply == IF parsedReply.ok THEN ensureAnalysisShape(parsedReply.val) ELSE Failed
  IN IF shapedReply.ok THEN shapedReply.val
     ELSE Put(Put(ensureAnalysisShape(EmptyObj).val,
                  K_podsumowanie, Str(PARSE_FAILED_SUMMARY)),
              K_rawResponse, Str(sliceTo(raw, RawResponseChars)))

\* basePct (lines 540-543)
BasePct(analysis, kwOverlapPct) ==
  LET dop == Get(analysis, K_dopasowanie)
      strong == Len(Get(dop, K_mocne_strony).items)
      total == strong + Len(Get(dop, K_obszary_do_poprawy).items)
      pct == IF total > 0 THEN RoundedPercent(strong, total) ELSE 0
      capTo(c) == IF pct < c THEN pct ELSE c
  IN IF kwOverlapPct < LowOverlapPct THEN capTo(LowOverlapCap)
     ELSE IF kwOverlapPct < MidOverlapPct THEN capTo(MidOverlapCap)
     ELSE pct

\* the fields the handler adds to the analysis (lines 544-558)
Finish(analysis, cvClass, jdClass, effective, kwOverlapPct, abVariant) ==
  LET cvi == Get(cvClass, K_industry)
      jdi == Get(jdClass, K_industry)
      mismatch == StrictNotEqual(cvi, Str(INNE)) /\ StrictNotEqual(jdi, Str(INNE))
                  /\ StrictNotEqual(cvi, jdi)
      meta == Obj(<<K_ab_variant, K_industry_cv, K_industry_jd, K_industry_effective,
                    K_role_cv, K_role_jd, K_kw_overlap_pct>>,
                  <<Str(<<abVariant>>), cvi, jdi, effective,
                    Get(cvClass, K_role_hint), Get(jdClass, K_role_hint), Num(kwOverlapPct)>>)
  IN Put(Put(Put(analysis, K_dopasowanie_procentowe, Num(BasePct(analysis, kwOverlapPct))),
             K_warning_mismatch, Bool(mismatch)),
         K_meta, meta)


(***************************************************************************)
(* Texts the environment can hand to the program                           *)
(***************************************************************************)
Repeat(c, n) == [i \in 1..n |-> c]
Quoted(s) == <<QUOTE>> \o s \o <<QUOTE>>
Member(k, v) == Quoted(k) \o <<":">> \o v
Braces(members) == <<"{">> \o join(members, <<",">>) \o <<"}">>
Brackets(items) == <<"[">> \o join(items, <<",">>) \o <<"]">>
\* n one-letter strings "a", "b", ... (the letters repeat after z)
Letters == <<"a", "b", "c", "d", "e", "f", "g", "h", "i", "j", "k", "l", "m">>
Items(n) == [i \in 1..n |-> Quoted(<<Letters[((i - 1) % Len(Letters)) + 1]>>)]

\* a reply in the format the prompt asks for (lines 506-519), with the given
\* summary and the given numbers of strengths, gaps, soft and hard questions
AnalysisReply(summary, strong, gaps, soft, hard) ==
  Braces(<<Member(K_podsumowanie, Quoted(summary)),
           Member(K_dopasowanie,
                  Braces(<<Member(K_mocne_strony, Brackets(Items(strong))),
                           Member(K_obszary_do_poprawy, Brackets(Items(gaps)))>>)),
           Member(K_pytania,
                  Braces(<<Member(K_kompetencje_miekkie, Brackets(Items(soft))),
                           Member(K_kompetencje_twarde, Brackets(Items(hard)))>>))>>)

\* numbers of strengths, gaps, soft questions and hard questions
ReplyCounts ==
  {<<0, 0, 0, 0>>, <<2, 1, 5, 3>>, <<1, 0, 2, 2>>, <<0, 1, 7, 10>>, <<1, 2, 1, 11>>,
   <<1, 1, 3, 0>>, <<23, 17, 2, 2>>}
OK_SUMMARY == <<"o", "k">>
WellFormedReplies ==
  {AnalysisReply(OK_SUMMARY, c[1], c[2], c[3], c[4]) : c \in ReplyCounts}

\* (fence)json\n{"podsumowanie":"ok","dopasowanie":{"mocne_strony":["a","b"],"obszary_do_poprawy":["c"]}}\n(fence)
R_FENCED ==
  <<"U+0060", "U+0060", "U+0060", "j", "s", "o", "n", "\n", "{", "\"", "p", "o", "d",
    "s", "u", "m", "o", "w", "a", "n", "i", "e", "\"", ":", "\"", "o", "k", "\"", ",",
    "\"", "d", "o", "p", "a", "s", "o", "w", "a", "n", "i", "e", "\"", ":", "{", "\"",
    "m", "o", "c", "n", "e", "_", "s", "t", "r", "o", "n", "y", "\"", ":", "[", "\"",
    "a", "\"", ",", "\"", "b", "\"", "]", ",", "\"", "o", "b", "s", "z", "a", "r", "y",
    "_", "d", "o", "_", "p", "o", "p", "r", "a", "w", "y", "\"", ":", "[", "\"", "c",
    "\"", "]", "}", "}", "\n", "U+0060", "U+0060", "U+0060">>
\* Oto wynik: {"podsumowanie":"ok","dopasowanie":{"mocne_strony":["a","b"],"obszary_do_poprawy":["c"]}} Pozdrawiam.
R_PROSE ==
  <<"O", "t", "o", " ", "w", "y", "n", "i", "k", ":", " ", "{", "\"", "p", "o", "d",
    "s", "u", "m", "o", "w", "a", "n", "i", "e", "\"", ":", "\"", "o", "k", "\"", ",",
    "\"", "d", "o", "p", "a", "s", "o", "w", "a", "n", "i", "e", "\"", ":", "{", "\"",
    "m", "o", "c", "n", "e", "_", "s", "t", "r", "o", "n", "y", "\"", ":", "[", "\"",
    "a", "\"", ",", "\"", "b", "\"", "]", ",", "\"", "o", "b", "s", "z", "a", "r", "y",
    "_", "d", "o", "_", "p", "o", "p", "r", "a", "w", "y", "\"", ":", "[", "\"", "c",
    "\"", "]", "}", "}", " ", "P", "o", "z", "d", "r", "a", "w", "i", "a", "m", ".">>
\* {"podsumowanie":"ok","dopasowanie_procentowe":99,"warning_mismatch":true,"meta":{"x":1},"rawResponse":"r","dopasowanie":{"mocne_strony":["a"],"obszary_do_poprawy":["c"]}}
R_SCORED ==
  <<"{", "\"", "p", "o", "d", "s", "u", "m", "o", "w", "a", "n", "i", "e", "\"", ":",
    "\"", "o", "k", "\"", ",", "\"", "d", "o", "p", "a", "s", "o", "w", "a", "n", "i",
    "e", "_", "p", "r", "o", "c", "e", "n", "t", "o", "w", "e", "\"", ":", "9", "9",
    ",", "\"", "w", "a", "r", "n", "i", "n", "g", "_", "m", "i", "s", "m", "a", "t",
    "c", "h", "\"", ":", "t", "r", "u", "e", ",", "\"", "m", "e", "t", "a", "\"", ":",
    "{", "\"", "x", "\"", ":", "1", "}", ",", "\"", "r", "a", "w", "R", "e", "s", "p",
    "o", "n", "s", "e", "\"", ":", "\"", "r", "\"", ",", "\"", "d", "o", "p", "a", "s",
    "o", "w", "a", "n", "i", "e", "\"", ":", "{", "\"", "m", "o", "c", "n", "e", "_",
    "s", "t", "r", "o", "n", "y", "\"", ":", "[", "\"", "a", "\"", "]", ",", "\"", "o",
    "b", "s", "z", "a", "r", "y", "_", "d", "o", "_", "p", "o", "p", "r", "a", "w",
    "y", "\"", ":", "[", "\"", "c", "\"", "]", "}", "}">>
\* {“podsumowanie”: “ok”, // uwaga\n “pytania”: {“kompetencje_twarde”: [“a”] /* x */ ,}}
R_TYPOGRAPHIC ==
  <<"{", "U+201C", "p", "o", "d", "s", "u", "m", "o", "w", "a", "n", "i", "e",
    "U+201D", ":", " ", "U+201C", "o", "k", "U+201D", ",", " ", "/", "/", " ", "u",
    "w", "a", "g", "a", "\n", " ", "U+201C", "p", "y", "t", "a", "n", "i", "a",
    "U+201D", ":", " ", "{", "U+201C", "k", "o", "m", "p", "e", "t", "e", "n", "c",
    "j", "e", "_", "t", "w", "a", "r", "d", "e", "U+201D", ":", " ", "[", "U+201C",
    "a", "U+201D", "]", " ", "/", "*", " ", "x", " ", "*", "/", " ", ",", "}", "}">>
\* {"podsumowanie":"ok",}
R_TRAILING_BRACE ==
  <<"{", "\"", "p", "o", "d", "s", "u", "m", "o", "w", "a", "n", "i", "e", "\"", ":",
    "\"", "o", "k", "\"", ",", "}">>
\* {"dopasowanie":{"mocne_strony":["a","b",]}}
R_TRAILING_BRACKET ==
  <<"{", "\"", "d", "o", "p", "a", "s", "o", "w", "a", "n", "i", "e", "\"", ":", "{",
    "\"", "m", "o", "c", "n", "e", "_", "s", "t", "r", "o", "n", "y", "\"", ":", "[",
    "\"", "a", "\"", ",", "\"", "b", "\"", ",", "]", "}", "}">>
\* Przepraszam, nie mogę pomóc.
R_NO_BRACE ==
  <<"P", "r", "z", "e", "p", "r", "a", "s", "z", "a", "m", ",", " ", "n", "i", "e",
    " ", "m", "o", "g", "U+0119", " ", "p", "o", "m", "U+00F3", "c", ".">>
\* {a}
R_BAD_OBJECT ==
  <<"{", "a", "}">>
\* {"podsumowanie":"ok"
R_UNCLOSED ==
  <<"{", "\"", "p", "o", "d", "s", "u", "m", "o", "w", "a", "n", "i", "e", "\"", ":",
    "\"", "o", "k", "\"">>
\* null
R_NULL ==
  <<"n", "u", "l", "l">>
\* 5
R_NUMBER ==
  <<"5">>
\* 0
R_ZERO ==
  <<"0">>
\* "ok"
R_STRING ==
  <<"\"", "o", "k", "\"">>
\* [1,2]
R_ARRAY ==
  <<"[", "1", ",", "2", "]">>
\* true
R_TRUE ==
  <<"t", "r", "u", "e">>
\* {"podsumowanie":5,"dopasowanie":"x","pytania":[1]}
R_WRONG_TYPES ==
  <<"{", "\"", "p", "o", "d", "s", "u", "m", "o", "w", "a", "n", "i", "e", "\"", ":",
    "5", ",", "\"", "d", "o", "p", "a", "s", "o", "w", "a", "n", "i", "e", "\"", ":",
    "\"", "x", "\"", ",", "\"", "p", "y", "t", "a", "n", "i", "a", "\"", ":", "[", "1",
    "]", "}">>
\* {"podsumowanie":null,"dopasowanie":null,"pytania":null}
R_NULL_FIELDS ==
  <<"{", "\"", "p", "o", "d", "s", "u", "m", "o", "w", "a", "n", "i", "e", "\"", ":",
    "n", "u", "l", "l", ",", "\"", "d", "o", "p", "a", "s", "o", "w", "a", "n", "i",
    "e", "\"", ":", "n", "u", "l", "l", ",", "\"", "p", "y", "t", "a", "n", "i", "a",
    "\"", ":", "n", "u", "l", "l", "}">>
\* {"podsumowanie":{"a":1},"dopasowanie":{"mocne_strony":"ab","obszary_do_poprawy":[1,null,{"x":1}]}}
R_MIXED_ITEMS ==
  <<"{", "\"", "p", "o", "d", "s", "u", "m", "o", "w", "a", "n", "i", "e", "\"", ":",
    "{", "\"", "a", "\"", ":", "1", "}", ",", "\"", "d", "o", "p", "a", "s", "o", "w",
    "a", "n", "i", "e", "\"", ":", "{", "\"", "m", "o", "c", "n", "e", "_", "s", "t",
    "r", "o", "n", "y", "\"", ":", "\"", "a", "b", "\"", ",", "\"", "o", "b", "s", "z",
    "a", "r", "y", "_", "d", "o", "_", "p", "o", "p", "r", "a", "w", "y", "\"", ":",
    "[", "1", ",", "n", "u", "l", "l", ",", "{", "\"", "x", "\"", ":", "1", "}", "]",
    "}", "}">>

\* a reply of more than RawResponseChars characters that is no JSON
R_LONG_TEXT == Repeat("x", RawResponseChars + 1)
\* a strength of more than LIMITS.itemChars characters
R_LONG_ITEM ==
  Braces(<<Member(K_podsumowanie, Quoted(OK_SUMMARY)),
           Member(K_dopasowanie,
                  Braces(<<Member(K_mocne_strony,
                                  Brackets(<<Quoted(Repeat("b", LIMITS_itemChars + 1))>>))>>))>>)
\* a summary of more than LIMITS.summaryChars characters
R_LONG_SUMMARY ==
  Braces(<<Member(K_podsumowanie, Quoted(Repeat("a", LIMITS_summaryChars + 1)))>>)

\* what generateWithFallback can resolve to
Replies ==
  WellFormedReplies \cup
  {<<>>, R_FENCED, R_PROSE, R_SCORED, R_TYPOGRAPHIC, R_TRAILING_BRACE, R_TRAILING_BRACKET,
   R_NO_BRACE, R_BAD_OBJECT, R_UNCLOSED, R_NULL, R_NUMBER, R_ZERO, R_STRING, R_ARRAY,
   R_TRUE, R_WRONG_TYPES, R_NULL_FIELDS, R_MIXED_ITEMS, R_LONG_TEXT, R_LONG_ITEM,
   R_LONG_SUMMARY}


(***************************************************************************)
(* The request of POST /api/analyze-cv-multiple and what its awaits        *)
(* resolve to                                                              *)
(***************************************************************************)
\* the text of the uploaded document: Python, SQL.
CV_TEXT ==
  <<"P", "y", "t", "h", "o", "n", ",", " ", "S", "Q", "L", ".">>
\* the textContent of the article of a posting: \n Szukamy:\n\n  Python. \n
PAGE_TEXT ==
  <<"\n", " ", "S", "z", "u", "k", "a", "m", "y", ":", "\n", "\n", " ", " ", "P", "y", "t",
    "h", "o", "n", ".", " ", "\n">>
\* \n\n[DODATKOWY OPIS KANDYDATA]\n
ADDITIONAL_HEADER ==
  <<"\n", "\n", "[", "D", "O", "D", "A", "T", "K", "O", "W", "Y", " ", "O", "P", "I",
    "S", " ", "K", "A", "N", "D", "Y", "D", "A", "T", "A", "]", "\n">>
\* an additional description: Excel
ADDITIONAL_TEXT ==
  <<"E", "x", "c", "e", "l">>
\* Free
PLAN_FREE_MIXED_CASE ==
  <<"F", "r", "e", "e">>
\* paid
PLAN_PAID ==
  <<"p", "a", "i", "d">>
\* a selectedIndustry of the form: ' Finanse '
SELECTED_INDUSTRY ==
  <<" ", "F", "i", "n", "a", "n", "s", "e", " ">>
\* IT/Software
IT_SOFTWARE ==
  <<"I", "T", "/", "S", "o", "f", "t", "w", "a", "r", "e">>
\* HR/Rekrutacja
HR_REKRUTACJA ==
  <<"H", "R", "/", "R", "e", "k", "r", "u", "t", "a", "c", "j", "a">>
\* backend
ROLE_BACKEND ==
  <<"b", "a", "c", "k", "e", "n", "d">>
\* Mid
SENIORITY_MID ==
  <<"M", "i", "d">>
\* Unknown
SENIORITY_UNKNOWN ==
  <<"U", "n", "k", "n", "o", "w", "n">>
\* 'Brak przesłanego pliku CV'
MSG_NO_FILE ==
  <<"B", "r", "a", "k", " ", "p", "r", "z", "e", "s", "U+0142", "a", "n", "e", "g",
    "o", " ", "p", "l", "i", "k", "u", " ", "C", "V">>
\* Brak GEMINI_API_KEY w .env
MSG_NO_KEY ==
  <<"B", "r", "a", "k", " ", "G", "E", "M", "I", "N", "I", "_", "A", "P", "I", "_",
    "K", "E", "Y", " ", "w", " ", ".", "e", "n", "v">>
\* 'Błąd podczas analizy CV'
MSG_FAILED ==
  <<"B", "U+0142", "U+0105", "d", " ", "p", "o", "d", "c", "z", "a", "s", " ", "a",
    "n", "a", "l", "i", "z", "y", " ", "C", "V">>
\* error
K_error ==
  <<"e", "r", "r", "o", "r">>
\* details
K_details ==
  <<"d", "e", "t", "a", "i", "l", "s">>
\* status
K_status ==
  <<"s", "t", "a", "t", "u", "s">>
\* analysis
K_analysis ==
  <<"a", "n", "a", "l", "y", "s", "i", "s">>
\* success
SUCCESS ==
  <<"s", "u", "c", "c", "e", "s", "s">>

\* the number of posting URLs a request carries at most
MaxUrls == 1

Plans == {Undefined, Str(PLAN_FREE_MIXED_CASE), Str(PLAN_PAID)}
SelectedIndustries == {Undefined, Str(SELECTED_INDUSTRY)}
AdditionalDescriptions == {Undefined, Str(ADDITIONAL_TEXT)}
AbVariants == {"A", "B"}

Class(industry, role, seniority) ==
  Obj(<<K_industry, K_role_hint, K_seniority>>, <<Str(industry), Str(role), Str(seniority)>>)
\* the object classifyText returns from its catch (line 304)
ClassFallback == Class(INNE, <<>>, SENIORITY_UNKNOWN)
\* what classifyText can resolve to: JSON.parse of the classifier's reply
\* (null when the reply is the text null), or the fallback
CvClasses == {Class(IT_SOFTWARE, ROLE_BACKEND, SENIORITY_MID), ClassFallback, Null}
JdClasses == {Class(HR_REKRUTACJA, <<>>, SENIORITY_MID), Class(IT_SOFTWARE, ROLE_BACKEND, SENIORITY_MID),
              ClassFallback, Null}

\* raw.replace(/FENCE json|FENCE/g, '') (line 300): every fence mark, with its
\* json tag when it has one, is removed
removeFenceMarks(raw) ==
  LET st == Run("fence", [out |-> <<>>, hold |-> <<>>, mode |-> "text"], raw, 1, Len(raw))
  IN st.out \o st.hold

\* the classification model call: it rejects, or it resolves to a text
Rejected == [rejected |-> TRUE, text |-> <<>>]
Resolved(text) == [rejected |-> FALSE, text |-> text]

\* classifyText (lines 290-306): JSON.parse of the reply without its fence
\* marks is returned as it is; the catch block answers a rejection and a
\* reply that does not parse
classifyText(outcome) ==
  IF outcome.rejected THEN ClassFallback
  ELSE LET cleaned == trim(removeFenceMarks(outcome.text))
           value == JSONparse(cleaned)
       IN IF value.ok THEN value.val ELSE ClassFallback

\* {"industry":"IT/Software","role_hint":"backend","seniority":"Mid"}
CL_CLASS ==
  Braces(<<Member(K_industry, Quoted(IT_SOFTWARE)), Member(K_role_hint, Quoted(ROLE_BACKEND)),
           Member(K_seniority, Quoted(SENIORITY_MID))>>)
\* the same between fence marks
CL_FENCED == FENCE \o <<"j", "s", "o", "n", "\n">> \o CL_CLASS \o <<"\n">> \o FENCE
\* IT/Software
CL_PROSE == IT_SOFTWARE
\* {}
CL_NO_KEYS == <<"{", "}">>
ClassifierOutcomes ==
  {Rejected} \cup {Resolved(t) : t \in {CL_CLASS, CL_FENCED, CL_PROSE, CL_NO_KEYS,
                                        R_NULL, R_STRING, R_NUMBER}}

\* what axios.get and Readability can come to for one posting URL: an article
\* with text, no article (reader.parse() returns null), or a rejection of
\* axios.get (network error, timeout, status outside 2xx) or a throw of JSDOM
FetchOutcomes == {"article", "noArticle", "rejected"}

\* textContent.replace(/\s+/g, ' ').trim()
collapseWhitespace(s) ==
  LET isWord(w) == Len(w) > 0
  IN join(SelectSeq(split(s), isWord), <<" ">>)

\* the try block of getJobDescriptionWithReadability (lines 190-200)
fetchArticle(outcome) ==
  IF outcome = "rejected" THEN Failed
  ELSE [ok |-> TRUE,
        val |-> Str(clampText(IF outcome = "article" THEN collapseWhitespace(PAGE_TEXT)
                              ELSE FETCH_SENTINEL,
                              LIMITS_jobSingleChars))]

\* getJobDescriptionWithReadability without its catch
getJobDescriptionWithReadability_NoCatch(outcome) ==
  [ok |-> fetchArticle(outcome).ok, val |-> fetchArticle(outcome).val.str]

\* getJobDescriptionWithReadability(url), given what the fetch comes to: the
\* catch (lines 201-204) turns every error into the sentinel
getJobDescriptionWithReadability(outcome) ==
  IF fetchArticle(outcome).ok
  THEN [ok |-> TRUE, val |-> fetchArticle(outcome).val.str]
  ELSE [ok |-> TRUE, val |-> FETCH_SENTINEL]

\* the errors an await can reject with, by their message
ERR_EXTRACT == <<"e", "x", "t", "r", "a", "c", "t">>
ERR_GENERATE == <<"g", "e", "n", "e", "r", "a", "t", "e">>
ERR_TYPE == <<"T", "y", "p", "e", "E", "r", "r", "o", "r">>
ERR_FETCH == <<"f", "e", "t", "c", "h">>

NoResponse == [sent |-> 0, status |-> 0, body |-> Undefined]
\* res.status(code).json(body)
Respond(res, code, body) == [sent |-> res.sent + 1, status |-> code, body |-> body]
ErrorBody(msg) == Obj(<<K_error>>, <<Str(msg)>>)
\* the body of the catch block without details
FailureBody_ErrorOnly(msg) == Obj(<<K_error>>, <<Str(MSG_FAILED)>>)
FailureBody(msg) == Obj(<<K_error, K_details>>, <<Str(MSG_FAILED), Str(msg)>>)
SuccessBody(analysis) == Obj(<<K_status, K_analysis>>, <<Str(SUCCESS), analysis>>)


(***************************************************************************)
(* State                                                                   *)
(***************************************************************************)
VARIABLES
  \* POST /api/analyze-cv-multiple, one request
  pc,                \* where the handler is: the await it is suspended at
  geminiKey,         \* process.env.GEMINI_API_KEY is set
  req,               \* the request: file, body, abVariant
  tmpFile,           \* the upload in uploads/: "none", "present" or "unlinked"
  uploadedFilePath,  \* the handler's variable is set
  cvText,
  fetches,           \* what the fetch of each posting URL came to
  combinedJD, cvClass, jdClass, effectiveIndustry,
  kwOverlapPct, numSoft, numHard,
  llmRaw,            \* the reply of the model, once generateWithFallback has resolved
  parsed,            \* what extractAndParseJSON(llmRaw) returned, or that it threw
  res,               \* the response
  \* extractAndParseJSON followed by ensureAnalysisShape, step by step
  rpc,               \* where the recovery is
  input,             \* the raw reply
  text,              \* t, the de-fenced text
  tried,             \* the recovery steps run so far, with their candidates
  result,            \* what extractAndParseJSON returned
  shaped,            \* what ensureAnalysisShape returned for it
  \* generateWithFallback, one invocation
  gpc,               \* where generateWithFallback is
  gprompt,           \* its argument
  gcalls,            \* the generateContent calls issued so far, in order
  gerr,              \* the error it threw
  gout,              \* the text it returned
  \* one application of a helper function
  call,              \* the helper applied, its arguments and what it returned
  \* POST /api/detect-industry, one request
  dpc,               \* where the handler is
  durls,             \* the number of URLs of the request
  pages,             \* what Promise.all resolved to: the page texts
  dres,              \* the response
  \* Promise.all(urls.map(getJobDescriptionWithReadability)), fetch by fetch
  ppc,               \* where the handler is around the fetches
  purls,             \* the number of posting URLs
  promises,          \* the promise of each fetch started, in the order of the URLs
  settleOrder,       \* the indices of the fetches in the order they completed
  pjoined,           \* combinedJD
  \* uploads/ and the requests with a CV file in flight
  now,               \* Date.now()
  inflight,          \* for each request: where it is, its req.file.path, whose file it read
  disk,              \* for each path in uploads/: the request whose upload it holds, 0 when absent
  \* POST /api/generate-questions, one request
  qpc,               \* where the handler is
  qreq,              \* the request body: plan, the number of URLs
  qjd,               \* combinedJD
  qclass,            \* jdClass
  qraw,              \* llmRaw, once generateWithFallback has resolved
  qout,              \* what extractAndParseJSON(llmRaw) returned, or that it threw
  qres,              \* the response
  \* POST /api/analyze-cv, one request
  apc,               \* where the handler is
  abuild,            \* the file the server was started from
  areq,              \* the request: file, additionalDescription
  atmp,              \* the upload in uploads/
  apath,             \* uploadedFilePath is set
  acvText,           \* cvText
  aclass,            \* cvClass
  araw,              \* llmRaw, once generateWithFallback has resolved
  aparsed,           \* what extractAndParseJSON(llmRaw) returned, or that it threw
  ares,              \* the response
  \* POST /api/jd-diff and /api/jd-diff-from-text, one request
  jpc,               \* where the handler is
  jreq,              \* the request: endpoint, number of postings, CV upload, cvText
  jfile,             \* the uploaded CV file: none, stored, unlinked
  jcv,               \* cvText
  jitems,            \* requirements of the postings read so far
  jres               \* the response

hvars == <<pc, geminiKey, req, tmpFile, uploadedFilePath, cvText, fetches, combinedJD,
           cvClass, jdClass, effectiveIndustry, kwOverlapPct, numSoft, numHard, llmRaw,
           parsed, res>>
rvars == <<rpc, input, text, tried, result, shaped>>
gvars == <<gpc, gprompt, gcalls, gerr, gout>>
uvars == <<call>>
dvars == <<dpc, durls, pages, dres>>
pvars == <<ppc, purls, promises, settleOrder, pjoined>>
cvars == <<now, inflight, disk>>
qvars == <<qpc, qreq, qjd, qclass, qraw, qout, qres>>
avars == <<apc, abuild, areq, atmp, apath, acvText, aclass, araw, aparsed, ares>>
jvars == <<jpc, jreq, jfile, jcv, jitems, jres>>
vars == <<hvars, rvars, gvars, uvars, dvars, pvars, cvars, qvars, avars, jvars>>
\* what a step of one part leaves alone
notHandler == <<rvars, gvars, uvars, dvars, pvars, cvars, qvars, avars, jvars>>
notRecovery == <<hvars, gvars, uvars, dvars, pvars, cvars, qvars, avars, jvars>>
notGenerate == <<hvars, rvars, uvars, dvars, pvars, cvars, qvars, avars, jvars>>
notHelpers == <<hvars, rvars, gvars, dvars, pvars, cvars, qvars, avars, jvars>>
notDetect == <<hvars, rvars, gvars, uvars, pvars, cvars, qvars, avars, jvars>>
notParallel == <<hvars, rvars, gvars, uvars, dvars, cvars, qvars, avars, jvars>>
notUploads == <<hvars, rvars, gvars, uvars, dvars, pvars, qvars, avars, jvars>>
notQuestions == <<hvars, rvars, gvars, uvars, dvars, pvars, cvars, avars, jvars>>
notAnalyzeCv == <<hvars, rvars, gvars, uvars, dvars, pvars, cvars, qvars, jvars>>
notDiff == <<hvars, rvars, gvars, uvars, dvars, pvars, cvars, qvars, avars>>

NoRequest ==
  [file |-> FALSE, plan |-> Undefined, urls |-> 0, selectedIndustry |-> Undefined,
   additionalDescription |-> Undefined, abVariant |-> "A"]

HandlerIdle ==
  /\ pc = "idle"
  /\ req = NoRequest
  /\ tmpFile = "none"
  /\ uploadedFilePath = FALSE
  /\ cvText = <<>>
  /\ fetches = <<>>
  /\ combinedJD = <<>>
  /\ cvClass = Undefined
  /\ jdClass = Undefined
  /\ effectiveIndustry = Undefined
  /\ kwOverlapPct = 0
  /\ numSoft = 0
  /\ numHard = 0
  /\ llmRaw = Undefined
  /\ parsed = Failed
  /\ res = NoResponse

RecoveryIdle ==
  /\ rpc = "idle"
  /\ input = <<>>
  /\ text = <<>>
  /\ tried = <<>>
  /\ result = Failed
  /\ shaped = Failed

\* no error
NoError == [id |-> 0, message |-> <<>>]
GenerateIdle ==
  /\ gpc = "idle"
  /\ gprompt = <<>>
  /\ gcalls = <<>>
  /\ gerr = NoError
  /\ gout = <<>>
\* no helper applied
NoCall == [fn |-> "none"]
HelpersIdle == call = NoCall
DetectIdle ==
  /\ dpc = "idle"
  /\ durls = 0
  /\ pages = <<>>
  /\ dres = NoResponse

ParallelIdle ==
  /\ ppc = "idle"
  /\ purls = 0
  /\ promises = <<>>
  /\ settleOrder = <<>>
  /\ pjoined = <<>>

\* the requests in flight at the same time at most
NumRequests == 2
\* the milliseconds the clock advances at most
MaxClock == 1
\* file.originalname of the uploads
OriginalNames == {"cv.pdf", "resume.docx"}
\* the paths multer can store an upload at
Paths == [at : 0..MaxClock, name : OriginalNames]
NoPath == [at |-> 0, name |-> ""]
\* read: -1 before the read, 0 when the file was missing, else whose upload
NotArrived == [at |-> "none", path |-> NoPath, read |-> -1]

UploadsIdle ==
  /\ now = 0
  /\ inflight = [r \in 1..NumRequests |-> NotArrived]
  /\ disk = [p \in Paths |-> 0]

NoQuestionsRequest == [plan |-> Undefined, urls |-> 0]
QuestionsIdle ==
  /\ qpc = "idle"
  /\ qreq = NoQuestionsRequest
  /\ qjd = <<>>
  /\ qclass = Undefined
  /\ qraw = Undefined
  /\ qout = Failed
  /\ qres = NoResponse

\* the two versions of the server in the repository
Builds == {"server.js", "part_002"}
NoCvRequest == [file |-> FALSE, additionalDescription |-> Undefined]
CvRequestIdle ==
  /\ apc = "idle"
  /\ areq = NoCvRequest
  /\ atmp = "none"
  /\ apath = FALSE
  /\ acvText = <<>>
  /\ aclass = Undefined
  /\ araw = Undefined
  /\ aparsed = Failed
  /\ ares = NoResponse
AnalyzeCvIdle == abuild = "server.js" /\ CvRequestIdle

NoDiffRequest == [endpoint |-> "jd-diff", jobs |-> 0, file |-> FALSE, cvText |-> <<>>]
NoDiff == [error |-> <<>>, common |-> <<>>, unique |-> <<>>, per_job |-> <<>>]
NoDiffResponse == [sent |-> 0, status |-> 0, body |-> NoDiff]
DiffIdle ==
  /\ jpc = "idle"
  /\ jreq = NoDiffRequest
  /\ jfile = "none"
  /\ jcv = <<>>
  /\ jitems = <<>>
  /\ jres = NoDiffResponse

(***************************************************************************)
(* POST /api/analyze-cv-multiple                                           *)
(***************************************************************************)
\* the finally block (lines 574-576)
Unlinked == IF uploadedFilePath THEN "unlinked" ELSE tmpFile

\* the finally block without the response of the catch block
Fail_NoResponse(msg) ==
  /\ tmpFile' = Unlinked
  /\ pc' = "done"
  /\ UNCHANGED res

\* the catch block (lines 571-573) followed by the finally block
Fail(msg) ==
  /\ res' = Respond(res, 500, FailureBody(msg))
  /\ tmpFile' = Unlinked
  /\ pc' = "done"

\* multer stores the upload and express calls the handler
ReceiveFrom(files, plans, urlCounts, industries, descriptions, variants) ==
  /\ pc = "idle"
  /\ \E file \in files, plan \in plans, urls \in urlCounts,
        sel \in industries, add \in descriptions, ab \in variants :
       /\ req' = [file |-> file, plan |-> plan, urls |-> urls, selectedIndustry |-> sel,
                  additionalDescription |-> add, abVariant |-> ab]
       /\ tmpFile' = IF file THEN "present" ELSE "none"
  /\ pc' = "validate"
  /\ UNCHANGED <<geminiKey, fetches, uploadedFilePath, cvText, combinedJD, cvClass, jdClass,
                 effectiveIndustry, kwOverlapPct, numSoft, numHard, llmRaw, parsed, res>>
  /\ UNCHANGED notHandler

\* a request of any kind with at most MaxUrls posting URLs
Receive ==
  ReceiveFrom(BOOLEAN, Plans, 0..MaxUrls, SelectedIndustries, AdditionalDescriptions,
              AbVariants)
\* lines 446-458, up to the first await
Validate ==
  /\ pc = "validate"
  /\ IF ~req.file
     THEN /\ res' = Respond(res, 400, ErrorBody(MSG_NO_FILE))
          /\ pc' = "done"
          /\ UNCHANGED uploadedFilePath
     ELSE IF ~geminiKey
     THEN /\ res' = Respond(res, 400, ErrorBody(MSG_NO_KEY))
          /\ pc' = "done"
          /\ UNCHANGED uploadedFilePath
     ELSE /\ uploadedFilePath' = TRUE
          /\ pc' = "extract"
          /\ UNCHANGED res
  /\ UNCHANGED <<geminiKey, fetches, req, tmpFile, cvText, combinedJD, cvClass, jdClass,
                 effectiveIndustry, kwOverlapPct, numSoft, numHard, llmRaw, parsed>>
  /\ UNCHANGED notHandler

\* await extractTextFromCV (line 461) resolves, then line 462
ExtractCV ==
  /\ pc = "extract"
  /\ LET add == IF IsString(req.additionalDescription)
                THEN clampText(req.additionalDescription.str, LIMITS_additionalDescriptionChars)
                ELSE <<>>
         extracted == clampText(trim(CV_TEXT), LIMITS_cvChars)
     IN cvText' = IF Len(add) > 0 THEN extracted \o ADDITIONAL_HEADER \o add ELSE extracted
  /\ pc' = "fetch"
  /\ UNCHANGED <<geminiKey, fetches, req, tmpFile, uploadedFilePath, combinedJD, cvClass, jdClass,
                 effectiveIndustry, kwOverlapPct, numSoft, numHard, llmRaw, parsed, res>>
  /\ UNCHANGED notHandler

\* await extractTextFromCV rejects
ExtractCVFails ==
  /\ pc = "extract"
  /\ Fail(ERR_EXTRACT)
  /\ UNCHANGED <<geminiKey, fetches, req, uploadedFilePath, cvText, combinedJD, cvClass, jdClass,
                 effectiveIndustry, kwOverlapPct, numSoft, numHard, llmRaw, parsed>>
  /\ UNCHANGED notHandler

\* await Promise.all(urls.map(getJobDescriptionWithReadability)) (lines 465-469):
\* each fetch comes to one of FetchOutcomes; Promise.all rejects when one of
\* the calls does
FetchJDs ==
  /\ pc = "fetch"
  /\ \E outcomes \in [1..req.urls -> FetchOutcomes] :
       LET results == [i \in 1..req.urls |-> getJobDescriptionWithReadability(outcomes[i])]
           jobDescriptions == [i \in 1..req.urls |-> results[i].val]
       IN /\ fetches' = outcomes
          /\ IF \A i \in 1..req.urls : results[i].ok
             THEN /\ combinedJD' = clampText(IF Len(jobDescriptions) > 0
                                             THEN join(jobDescriptions, JD_SEPARATOR)
                                             ELSE NO_POSTINGS,
                                             LIMITS_jobTotalChars)
                  /\ pc' = "classifyCV"
                  /\ UNCHANGED <<tmpFile, res>>
             ELSE /\ Fail(ERR_FETCH)
                  /\ UNCHANGED combinedJD
  /\ UNCHANGED <<geminiKey, req, uploadedFilePath, cvText, cvClass, jdClass,
                 effectiveIndustry, kwOverlapPct, numSoft, numHard, llmRaw, parsed>>
  /\ UNCHANGED notHandler
\* await classifyText(cvText, 'CV') resolves (line 472)
ClassifyCVFrom(classes) ==
  /\ pc = "classifyCV"
  /\ \E c \in classes : cvClass' = c
  /\ pc' = "classifyJD"
  /\ UNCHANGED <<geminiKey, fetches, req, tmpFile, uploadedFilePath, cvText, combinedJD, jdClass,
                 effectiveIndustry, kwOverlapPct, numSoft, numHard, llmRaw, parsed, res>>
  /\ UNCHANGED notHandler

\* await classifyText(combinedJD, 'JD') resolves (line 473), then lines 476-526:
\* reading a property of null throws a TypeError
ClassifyJDFrom(classes) ==
  /\ pc = "classifyJD"
  /\ \E c \in classes :
       /\ jdClass' = c
       /\ IF c.kind = "null" \/ cvClass.kind = "null"
          THEN /\ Fail(ERR_TYPE)
               /\ UNCHANGED <<effectiveIndustry, kwOverlapPct, numSoft, numHard>>
          ELSE /\ effectiveIndustry' = EffectiveIndustry(cvClass, c, req.selectedIndustry)
               /\ kwOverlapPct' = KwOverlapPct(cvText, combinedJD)
               /\ numSoft' = NumSoft(PlanOf(req.plan))
               /\ numHard' = NumHard(PlanOf(req.plan))
               /\ pc' = "generate"
               /\ UNCHANGED <<tmpFile, res>>
  /\ UNCHANGED <<geminiKey, fetches, req, uploadedFilePath, cvText, combinedJD, cvClass, llmRaw,
                 parsed>>
  /\ UNCHANGED notHandler

ClassifyCV == ClassifyCVFrom(CvClasses)
ClassifyJD == ClassifyJDFrom(JdClasses)

\* await generateWithFallback(prompt) resolves (line 527)
Generate ==
  /\ pc = "generate"
  /\ \E r \in Replies : llmRaw' = Str(r)
  /\ pc' = "parse"
  /\ UNCHANGED <<geminiKey, fetches, req, tmpFile, uploadedFilePath, cvText, combinedJD, cvClass,
                 jdClass, effectiveIndustry, kwOverlapPct, numSoft, numHard, parsed, res>>
  /\ UNCHANGED notHandler

\* await generateWithFallback(prompt) rejects
GenerateFails ==
  /\ pc = "generate"
  /\ Fail(ERR_GENERATE)
  /\ UNCHANGED <<geminiKey, fetches, req, uploadedFilePath, cvText, combinedJD, cvClass, jdClass,
                 effectiveIndustry, kwOverlapPct, numSoft, numHard, llmRaw, parsed>>
  /\ UNCHANGED notHandler

\* lines 528-570 and the finally block
Answer ==
  /\ pc = "parse"
  /\ parsed' = extractAndParseJSON(llmRaw.str)
  /\ res' = Respond(res, 200,
                    SuccessBody(Finish(Shape(parsed', llmRaw.str), cvClass, jdClass,
                                       effectiveIndustry, kwOverlapPct, req.abVariant)))
  /\ tmpFile' = Unlinked
  /\ pc' = "done"
  /\ UNCHANGED <<geminiKey, fetches, req, uploadedFilePath, cvText, combinedJD, cvClass, jdClass,
                 effectiveIndustry, kwOverlapPct, numSoft, numHard, llmRaw>>
  /\ UNCHANGED notHandler

Init ==
  /\ geminiKey \in BOOLEAN
  /\ HandlerIdle /\ RecoveryIdle /\ GenerateIdle /\ HelpersIdle /\ DetectIdle /\ ParallelIdle /\ UploadsIdle /\ QuestionsIdle /\ AnalyzeCvIdle /\ DiffIdle

Next ==
  \/ Receive
  \/ Validate
  \/ ExtractCV
  \/ ExtractCVFails
  \/ FetchJDs
  \/ ClassifyCV
  \/ ClassifyJD
  \/ Generate
  \/ GenerateFails
  \/ Answer

Spec == Init /\ [][Next]_vars


(***************************************************************************)
(* extractAndParseJSON and ensureAnalysisShape, one step at a time         *)
(***************************************************************************)
\* the longest reply of which every text is tried
MaxLen == 4
RecoveryAlphabet == {"{", "}", "[", "]", QUOTE, BSLASH, ",", "1"}
ShortReplies == UNION {[1..n -> RecoveryAlphabet] : n \in 0..MaxLen}

\* x {"a":"}"} y
T_QUOTED_CLOSER ==
  <<"x", " ", "{", "\"", "a", "\"", ":", "\"", "}", "\"", "}", " ", "y">>
\* {"a":"\"}"} y  (an escaped quote, then a closer, inside the string)
T_ESCAPED_QUOTE ==
  <<"{", "\"", "a", "\"", ":", "\"", "\\", "\"", "}", "\"", "}", " ", "y">>
\* ["\\"] ]  (an escaped backslash just before the closing quote)
T_ESCAPED_BACKSLASH ==
  <<"[", "\"", "\\", "\\", "\"", "]", " ", "]">>
\* [1] {"a":1}
T_ARRAY_THEN_OBJECT ==
  <<"[", "1", "]", " ", "{", "\"", "a", "\"", ":", "1", "}">>
\* {"a":1} {"b":2}
T_TWO_OBJECTS ==
  <<"{", "\"", "a", "\"", ":", "1", "}", " ", "{", "\"", "b", "\"", ":", "2", "}">>
\* {"a":1} }
T_OBJECT_THEN_BRACE ==
  <<"{", "\"", "a", "\"", ":", "1", "}", " ", "}">>
\* x {a} {"b":1}
T_BAD_THEN_GOOD ==
  <<"x", " ", "{", "a", "}", " ", "{", "\"", "b", "\"", ":", "1", "}">>
\* a } b {"a":[1,2]} c
T_BRACE_IN_PROSE ==
  <<"a", " ", "}", " ", "b", " ", "{", "\"", "a", "\"", ":", "[", "1", ",", "2", "]",
    "}", " ", "c">>
\* { [{"a":1}]
T_OBJECT_IN_ARRAY_TAIL ==
  <<"{", " ", "[", "{", "\"", "a", "\"", ":", "1", "}", "]">>
\* {"a":1 , }
T_COMMA_SPACE_BRACE ==
  <<"{", "\"", "a", "\"", ":", "1", " ", ",", " ", "}">>
\* {"a":[1,]}
T_COMMA_BRACKET_NESTED ==
  <<"{", "\"", "a", "\"", ":", "[", "1", ",", "]", "}">>
\* {"a":"x,}"}
T_COMMA_IN_STRING ==
  <<"{", "\"", "a", "\"", ":", "\"", "x", ",", "}", "\"", "}">>
\* (fence)\n[1,2]\n(fence)
T_FENCED_ARRAY ==
  <<"U+0060", "U+0060", "U+0060", "\n", "[", "1", ",", "2", "]", "\n", "U+0060",
    "U+0060", "U+0060">>
\* a byte-order mark, then  {"a":1}
T_BOM ==
  <<"U+FEFF", " ", "{", "\"", "a", "\"", ":", "1", "}">>

\* {"a":"http://x"}
T_SLASHES_IN_STRING ==
  <<"{", "\"", "a", "\"", ":", "\"", "h", "t", "t", "p", ":", "/", "/", "x", "\"", "}">>
\* {"a":"/*x*/"}
T_BLOCK_IN_STRING ==
  <<"{", "\"", "a", "\"", ":", "\"", "/", "*", "x", "*", "/", "\"", "}">>
\* {"a":"(left double quotation mark)x(right double quotation mark)"}
T_QUOTES_IN_STRING ==
  <<"{", "\"", "a", "\"", ":", "\"", "U+201C", "x", "U+201D", "\"", "}">>
\* {"a":"(left single quotation mark)x(right single quotation mark)"}
T_APOSTROPHES_IN_STRING ==
  <<"{", "\"", "a", "\"", ":", "\"", "U+2018", "x", "U+2019", "\"", "}">>
\* ["x,(backtick)"]
T_COMMA_TICK_IN_STRING ==
  <<"[", "\"", "x", ",", "U+0060", "\"", "]">>

RecoveryCorpus ==
  {T_SLASHES_IN_STRING, T_BLOCK_IN_STRING, T_QUOTES_IN_STRING, T_APOSTROPHES_IN_STRING,
   T_COMMA_TICK_IN_STRING,
   T_QUOTED_CLOSER, T_ESCAPED_QUOTE, T_ESCAPED_BACKSLASH, T_ARRAY_THEN_OBJECT, T_TWO_OBJECTS,
   T_OBJECT_THEN_BRACE, T_BAD_THEN_GOOD, T_BRACE_IN_PROSE, T_OBJECT_IN_ARRAY_TAIL,
   T_COMMA_SPACE_BRACE, T_COMMA_BRACKET_NESTED, T_COMMA_IN_STRING, T_FENCED_ARRAY, T_BOM,
   R_FENCED, R_PROSE, R_SCORED, R_TYPOGRAPHIC, R_TRAILING_BRACE, R_TRAILING_BRACKET,
   R_NO_BRACE, R_BAD_OBJECT, R_UNCLOSED, R_NULL, R_NUMBER, R_ZERO, R_STRING, R_ARRAY,
   R_TRUE, R_WRONG_TYPES, R_NULL_FIELDS, R_MIXED_ITEMS,
   AnalysisReply(OK_SUMMARY, 2, 1, 5, 3)}

\* lines 105-111: the empty reply is refused, the rest is de-fenced
Begin ==
  /\ rpc = "start"
  /\ IF Len(input) = 0
     THEN rpc' = "raised" /\ UNCHANGED text
     ELSE rpc' = "try" /\ text' = Defence(input)
  /\ UNCHANGED <<input, tried, result, shaped>>
  /\ UNCHANGED notRecovery

\* the next try { return cleanAndParse(...) } catch {} of lines 120-166, and
\* the throw of line 168 after the last one
Attempt ==
  /\ rpc = "try"
  /\ tried' = Append(tried, [step |-> RecoverySteps[Len(tried) + 1],
                             has |-> Candidate(RecoverySteps[Len(tried) + 1], text).has,
                             text |-> Candidate(RecoverySteps[Len(tried) + 1], text).text,
                             ok |-> TryStep(RecoverySteps[Len(tried) + 1], text).ok])
  /\ IF tried'[Len(tried')].ok
     THEN rpc' = "returned" /\ result' = TryStep(RecoverySteps[Len(tried')], text)
     ELSE /\ rpc' = IF Len(tried') = Len(RecoverySteps) THEN "raised" ELSE "try"
          /\ UNCHANGED result
  /\ UNCHANGED <<input, text, shaped>>
  /\ UNCHANGED notRecovery

\* ensureAnalysisShape(parsed) (line 531)
Normalize ==
  /\ rpc = "returned"
  /\ shaped' = ensureAnalysisShape(result.val)
  /\ rpc' = IF shaped'.ok THEN "shaped" ELSE "shapeRaised"
  /\ UNCHANGED <<input, text, tried, result>>
  /\ UNCHANGED notRecovery

InitRecover ==
  /\ geminiKey = TRUE
  /\ HandlerIdle
  /\ rpc = "start"
  /\ input \in ShortReplies \cup RecoveryCorpus
  /\ text = <<>>
  /\ tried = <<>>
  /\ result = Failed
  /\ shaped = Failed
  /\ GenerateIdle /\ HelpersIdle /\ DetectIdle /\ ParallelIdle /\ UploadsIdle /\ QuestionsIdle /\ AnalyzeCvIdle /\ DiffIdle

NextRecover == Begin \/ Attempt \/ Normalize

SpecRecover == InitRecover /\ [][NextRecover]_vars


(***************************************************************************)
(* Properties of the recovery (checked under SpecRecover)                  *)
(***************************************************************************)
\* the recovery has ended with a value
Returned == rpc \in {"returned", "shaped", "shapeRaised"}

\* the substring of t from the first open to the last close, when the last
\* close comes after the first open
Between(t, open, close) ==
  LET opens == {i \in 1..Len(t) : t[i] = open}
      closes == {i \in 1..Len(t) : t[i] = close}
  IN IF opens # {} /\ closes # {} /\ Max(closes) > Min(opens)
     THEN [has |-> TRUE, text |-> SubSeq(t, Min(opens), Max(closes))]
     ELSE NoSpan

\* how each character of t[lo..hi] is read when the one at lo is read as cur:
\* outside a string literal ("out"), inside one ("in"), or inside one as the
\* character a backslash escapes ("esc")
RECURSIVE ReadAs(_, _, _, _)
ReadAs(t, lo, hi, cur) ==
  IF lo > hi THEN [seq |-> <<>>, next |-> cur]
  ELSE IF lo = hi
  THEN [seq |-> <<cur>>,
        next |-> CASE cur = "esc" -> "in"
                   [] cur = "in" /\ t[lo] = BSLASH -> "esc"
                   [] cur = "in" /\ t[lo] = QUOTE -> "out"
                   [] cur = "in" -> "in"
                   [] cur = "out" /\ t[lo] = QUOTE -> "in"
                   [] OTHER -> "out"]
  ELSE LET mid == (lo + hi) \div 2
           left == ReadAs(t, lo, mid, cur)
           right == ReadAs(t, mid + 1, hi, left.next)
       IN [seq |-> left.seq \o right.seq, next |-> right.next]

\* the span the statement of findBalancedJSON describes: from the first
\* opener to the first position where the depth is back at zero, the depth
\* counting the openers of that kind and their closers outside string literals
StatedSpan(t) ==
  LET openers == {i \in 1..Len(t) : t[i] \in {"{", "["}} IN
  IF openers = {} THEN NoSpan
  ELSE LET first == Min(openers)
           close == IF t[first] = "{" THEN "}" ELSE "]"
           readAs == ReadAs(t, first, Len(t), "out").seq
           structural(i) == readAs[i - first + 1] = "out" /\ t[i] # QUOTE
           depth(i) == Cardinality({j \in first..i : structural(j) /\ t[j] = t[first]})
                       - Cardinality({j \in first..i : structural(j) /\ t[j] = close})
           ends == {i \in first..Len(t) : structural(i) /\ depth(i) = 0}
       IN IF ends = {} THEN NoSpan
          ELSE [has |-> TRUE, text |-> SubSeq(t, first, Min(ends))]

\* the text the statement gives recovery step k to parse
StatedCandidate(k, t) ==
  CASE k = 1 -> [has |-> TRUE, text |-> t]
    [] k = 2 -> StatedSpan(t)
    [] k = 3 -> Between(t, "{", "}")
    [] OTHER -> Between(t, "[", "]")

\* C6: the recovery steps run in the order whole text, balanced span,
\* first '{' to last '}', first '[' to last ']'; each parses the text the
\* statement gives it; a step runs only after every earlier one failed; the
\* value returned is that of the first step that parses; and the error is
\* raised only after all four failed.
C6_StepsInOrder ==
  /\ Len(tried) <= 4
  /\ \A k \in 1..Len(tried) :
       /\ tried[k].step = <<"whole", "balanced", "object", "array">>[k]
       /\ tried[k].has = StatedCandidate(k, text).has
       /\ tried[k].has => tried[k].text = StatedCandidate(k, text).text
       /\ tried[k].ok = (tried[k].has /\ cleanAndParse(tried[k].text).ok)
       /\ k < Len(tried) => ~tried[k].ok
  /\ rpc = "try" => Len(tried) < 4
  /\ Returned => /\ tried[Len(tried)].ok
                 /\ result = cleanAndParse(tried[Len(tried)].text)
  /\ rpc = "raised" /\ Len(input) > 0 =>
       /\ Len(tried) = 4
       /\ \A k \in 1..4 : ~tried[k].ok

\* C6 witness: the fourth step returned a value after the first three failed
C6_Witness ==
  /\ Returned
  /\ Len(tried) = 4
  /\ tried[2].has /\ tried[3].has

\* C7: findBalancedJSON returns the span from the first opener to the first
\* position where the depth returns to zero (a quote toggles the string
\* state, a backslash inside a string escapes the next character, brackets
\* inside a string do not count), and null when there is no opener or the
\* depth never returns to zero.
C7_BalancedSpan ==
  /\ findBalancedJSON(input) = StatedSpan(input)
  /\ \A k \in 1..Len(tried) :
       tried[k].step = "balanced" =>
         [has |-> tried[k].has, text |-> tried[k].text] = StatedSpan(text)

\* C7 witness: the span ends before the end of the text, and a closer and an
\* escaped quote inside a string literal did not end it
C7_Witness ==
  /\ Len(tried) >= 2
  /\ tried[2].has
  /\ Len(tried[2].text) < Len(text)
  /\ \E i \in 2..(Len(tried[2].text) - 1) :
       /\ tried[2].text[i] = "}"
       /\ tried[2].text[i - 1] = QUOTE
       /\ tried[2].text[i - 2] = BSLASH
  /\ tried[2].text[1] = "{"


\* s without its character at position i
WithoutChar(s, i) == SubSeq(s, 1, i - 1) \o SubSeq(s, i + 1, Len(s))

\* the character at position i is a comma followed, after white space only,
\* by a closing brace or bracket
TrailingCommaAt(s, i) ==
  /\ s[i] = ","
  /\ \E j \in (i + 1)..Len(s) :
       /\ s[j] \in {"}", "]"}
       /\ \A k \in (i + 1)..(j - 1) : s[k] \in JSWS

\* C8 (as stated): a reply that is valid JSON except for one trailing comma
\* before '}' or before ']' is recovered to the value of the same text
\* without that comma.
C8_TrailingCommaRemoved ==
  rpc \in {"raised", "returned", "shaped", "shapeRaised"} =>
    \A i \in 1..Len(input) :
      (TrailingCommaAt(input, i) /\ ~JSONparse(input).ok
         /\ JSONparse(WithoutChar(input, i)).ok) =>
        (Returned /\ result.val = JSONparse(WithoutChar(input, i)).val)

\* C8, the part that holds: a trailing comma before '}' is removed
C8_CommaBeforeBraceRemoved ==
  rpc \in {"raised", "returned", "shaped", "shapeRaised"} =>
    \A i \in 1..Len(input) :
      (TrailingCommaAt(input, i) /\ ~JSONparse(input).ok
         /\ JSONparse(WithoutChar(input, i)).ok
         /\ \E j \in (i + 1)..Len(input) :
              input[j] = "}" /\ \A k \in (i + 1)..(j - 1) : input[k] \in JSWS) =>
        (Returned /\ result.val = JSONparse(WithoutChar(input, i)).val)

\* C8 witness: the recovery raised on a reply that is valid JSON except for a
\* trailing comma before ']'
C8_Witness ==
  /\ rpc = "raised"
  /\ \E i \in 1..Len(input) :
       /\ TrailingCommaAt(input, i)
       /\ JSONparse(WithoutChar(input, i)).ok

\* the text holds a balanced '{...}' or '[...]' span
HasBalancedSpan(s) ==
  \E i \in 1..Len(s) : s[i] \in {"{", "["} /\ StatedSpan(SubSeq(s, i, Len(s))).has

HasShape(v) ==
  /\ v.kind = "object"
  /\ Get(v, K_podsumowanie).kind # "undefined"
  /\ IsArray(Get(Get(v, K_dopasowanie), K_mocne_strony))
  /\ IsArray(Get(Get(v, K_dopasowanie), K_obszary_do_poprawy))
  /\ IsArray(Get(Get(v, K_pytania), K_kompetencje_miekkie))
  /\ IsArray(Get(Get(v, K_pytania), K_kompetencje_twarde))

C2_NormalizerNeverFails ==
  /\ rpc # "shapeRaised"
  /\ rpc = "shaped" => HasShape(shaped.val)

\* C2 witness: ensureAnalysisShape raised on a value the recovery returned
C2_Witness ==
  /\ rpc = "shapeRaised"
  /\ result.ok /\ result.val = Null


(***************************************************************************)
(* Properties of POST /api/analyze-cv-multiple (checked under Spec)        *)
(***************************************************************************)
\* the handler has answered 200
Answered == pc = "done" /\ res.status = 200
\* the analysis of the response
Analysis == Get(res.body, K_analysis)
Strengths == Get(Get(Analysis, K_dopasowanie), K_mocne_strony).items
Gaps == Get(Get(Analysis, K_dopasowanie), K_obszary_do_poprawy).items
SoftQuestions == Get(Get(Analysis, K_pytania), K_kompetencje_miekkie).items
HardQuestions == Get(Get(Analysis, K_pytania), K_kompetencje_twarde).items

\* C1: when extractAndParseJSON raises on the model reply, the handler
\* answers 200, once, with an analysis that has the shape fields (all lists
\* empty), the fixed 'could not parse' summary, and rawResponse equal to the
\* first 2000 characters of the reply; no error response is sent.
C1_PlaceholderOnParseFailure ==
  (pc = "done" /\ llmRaw # Undefined /\ ~parsed.ok) =>
    /\ res.sent = 1
    /\ res.status = 200
    /\ Get(res.body, K_status) = Str(<<"s", "u", "c", "c", "e", "s", "s">>)
    /\ Get(res.body, K_error) = Undefined
    /\ HasShape(Analysis)
    /\ Get(Analysis, K_podsumowanie) = Str(PARSE_FAILED_SUMMARY)
    /\ Strengths = <<>> /\ Gaps = <<>> /\ SoftQuestions = <<>> /\ HardQuestions = <<>>
    /\ Get(Analysis, K_rawResponse) =
         Str([i \in 1..(IF Len(llmRaw.str) < 2000 THEN Len(llmRaw.str) ELSE 2000) |->
                llmRaw.str[i]])

\* C1 witness: the handler answered 200 with the placeholder for an
\* unparsable reply of more than 2000 characters, cut to 2000
C1_Witness ==
  /\ Answered
  /\ ~parsed.ok
  /\ Len(llmRaw.str) > 2000
  /\ Len(Get(Analysis, K_rawResponse).str) = 2000
  /\ Get(Analysis, K_podsumowanie) = Str(PARSE_FAILED_SUMMARY)

\* C3 (as stated): in every analysis returned, podsumowanie is a string of at
\* most 800 characters and every strength and gap is a string of at most 200
\* characters.
C3_FieldsWithinCaps ==
  Answered =>
    /\ IsString(Get(Analysis, K_podsumowanie))
    /\ Len(Get(Analysis, K_podsumowanie).str) <= 800
    /\ \A i \in 1..Len(Strengths) : IsString(Strengths[i]) /\ Len(Strengths[i].str) <= 200
    /\ \A i \in 1..Len(Gaps) : IsString(Gaps[i]) /\ Len(Gaps[i].str) <= 200

\* C3 witness: an analysis was returned whose summary is a string of more
\* than 800 characters
C3_Witness ==
  /\ Answered
  /\ IsString(Get(Analysis, K_podsumowanie))
  /\ Len(Get(Analysis, K_podsumowanie).str) > 800

\* the list of questions of the given kind in the parsed reply
ReplyQuestions(kind) == OptGet(OptGet(parsed.val, K_pytania), kind)

\* C4 (as stated): with plan free, when the parsed reply holds more than 2
\* soft (hard) questions, the returned list is exactly its first 2 items in
\* their order.
C4_FreePlanKeepsFirstTwo ==
  (Answered /\ parsed.ok /\ toLowerCase(PlanOf(req.plan)) = <<"f", "r", "e", "e">>) =>
    /\ (IsArray(ReplyQuestions(K_kompetencje_miekkie))
          /\ Len(ReplyQuestions(K_kompetencje_miekkie).items) > 2) =>
         SoftQuestions = SubSeq(ReplyQuestions(K_kompetencje_miekkie).items, 1, 2)
    /\ (IsArray(ReplyQuestions(K_kompetencje_twarde))
          /\ Len(ReplyQuestions(K_kompetencje_twarde).items) > 2) =>
         HardQuestions = SubSeq(ReplyQuestions(K_kompetencje_twarde).items, 1, 2)

\* C4 witness: a free-plan request was answered with five soft questions
C4_Witness ==
  /\ Answered
  /\ numSoft = 2
  /\ Len(SoftQuestions) = 5

\* round(100 * s / (s + g)), halves rounded up
StatedPercent(s, g) == IF s + g = 0 THEN 0 ELSE (200 * s + (s + g)) \div (2 * (s + g))
StatedScore(s, g, overlap) ==
  IF overlap < 10 THEN Min({StatedPercent(s, g), 35})
  ELSE IF overlap < 20 THEN Min({StatedPercent(s, g), 50})
  ELSE StatedPercent(s, g)

\* C5 (as stated): dopasowanie_procentowe is an integer in 0..100, equal to
\* round(100*s/(s+g)) for s strengths and g gaps (0 when there are none),
\* lowered to at most 35 when the keyword overlap is below 10 and to at most
\* 50 when it is below 20; a score in the reply is not used.
C5_ScoreFromCounts ==
  Answered =>
    /\ Get(Analysis, K_dopasowanie_procentowe).kind = "number"
    /\ Get(Analysis, K_dopasowanie_procentowe).str = <<>>
    /\ Get(Analysis, K_dopasowanie_procentowe).num \in 0..100
    /\ Get(Analysis, K_dopasowanie_procentowe).num =
         StatedScore(Len(Strengths), Len(Gaps), kwOverlapPct)

\* C5 witness: 23 strengths and 17 gaps were scored 57 with an overlap of at
\* least 20
C5_Witness ==
  /\ Answered
  /\ Len(Strengths) = 23 /\ Len(Gaps) = 17
  /\ kwOverlapPct >= 20
  /\ Get(Analysis, K_dopasowanie_procentowe).num = 57

MaxChars == 5
MaxWords == 3

TextsOver(alphabet, n) == UNION {[1..k -> alphabet] : k \in 0..n}

\* clampText: short texts with every cap around their length, and texts one
\* character over the caps of LIMITS
ClampTexts ==
  TextsOver({"a", ELLIPSIS}, MaxChars)
    \cup {Repeat("x", LIMITS_itemChars), Repeat("x", LIMITS_itemChars + 1),
          Repeat("x", LIMITS_additionalDescriptionChars + 1)}
ClampCaps == (0..(MaxChars + 1)) \cup {LIMITS_itemChars, LIMITS_additionalDescriptionChars}

\* jaccard: lists of tokens, with repetitions
Tokens == {<<"a">>, <<"b">>, <<"c", "v">>}
TokenLists == UNION {[1..k -> Tokens] : k \in 0..MaxWords}

\* SQL i Python, python; sql. PYTHON - Java
KEYWORD_TEXT ==
  <<"S", "Q", "L", " ", "i", " ", "P", "y", "t", "h", "o", "n", ",", " ", "p", "y",
    "t", "h", "o", "n", ";", " ", "s", "q", "l", ".", " ", "P", "Y", "T", "H", "O",
    "N", " ", "-", " ", "J", "a", "v", "a">>

\* simpleKeywords: texts of letters in both cases, blanks and punctuation
\* (na is a stopword), and the texts of the request
KeywordTexts ==
  TextsOver({"a", "N", " ", ","}, MaxChars) \cup {CV_TEXT, PAGE_TEXT, KEYWORD_TEXT}
MinLens == {1, 2, DefaultMinLen}
TopNs == {0, 1, 2, KeywordTopN}

\* the plan field of a request body
PlanValues ==
  {Undefined, Null, Bool(TRUE), Num(0), Str(<<>>), Str(FREE), Str(PLAN_FREE_MIXED_CASE),
   Str(<<"F", "R", "E", "E">>), Str(PLAN_PAID), Str(<<"P", "A", "I", "D">>),
   Str(<<" ", "f", "r", "e", "e">>), Str(<<"p", "r", "o">>), Arr(<<Str(FREE)>>)}

Applied(fn, args, ret) == [fn |-> fn, args |-> args, ret |-> ret]

ClampText ==
  /\ call = NoCall
  /\ \E str \in ClampTexts, max \in ClampCaps :
       call' = Applied("clampText", <<str, max>>, clampText(str, max))
  /\ UNCHANGED notHelpers

Jaccard ==
  /\ call = NoCall
  /\ \E arrA \in TokenLists, arrB \in TokenLists :
       call' = Applied("jaccard", <<arrA, arrB>>, jaccard(arrA, arrB))
  /\ UNCHANGED notHelpers

SimpleKeywords ==
  /\ call = NoCall
  /\ \E s \in KeywordTexts, minLen \in MinLens, topN \in TopNs :
       call' = Applied("simpleKeywords", <<s, minLen, topN>>, simpleKeywords(s, minLen, topN))
  /\ UNCHANGED notHelpers

\* numSoft and numHard of POST /api/analyze-cv-multiple (lines 457, 486-488)
\* and of POST /api/generate-questions (lines 400, 403-405) for one plan
PlanCounts ==
  /\ call = NoCall
  /\ \E bodyPlan \in PlanValues :
       call' = Applied("planCounts", <<bodyPlan>>,
                       [multiple |-> <<NumSoft(PlanOf(bodyPlan)), NumHard(PlanOf(bodyPlan))>>,
                        questions |-> <<NumSoft(PlanOfQuestions(bodyPlan)),
                                        NumHard(PlanOfQuestions(bodyPlan))>>])
  /\ UNCHANGED notHelpers

InitHelpers ==
  /\ geminiKey = TRUE
  /\ HandlerIdle /\ RecoveryIdle /\ GenerateIdle /\ HelpersIdle /\ DetectIdle /\ ParallelIdle /\ UploadsIdle /\ QuestionsIdle /\ AnalyzeCvIdle /\ DiffIdle

NextHelpers == ClampText \/ Jaccard \/ SimpleKeywords \/ PlanCounts

SpecHelpers == InitHelpers /\ [][NextHelpers]_vars


(***************************************************************************)
(* Properties of the helper functions (checked under SpecHelpers)          *)
(***************************************************************************)
\* C11: for a text longer than the cap, clampText returns cap + 1
\* characters, the first cap characters of the text followed by the
\* one-character marker; a text of at most cap characters is returned
\* unchanged.
C11_ClampedToCapPlusMarker ==
  call.fn = "clampText" =>
    IF Len(call.args[1]) > call.args[2]
    THEN /\ Len(call.ret) = call.args[2] + 1
         /\ \A i \in 1..call.args[2] : call.ret[i] = call.args[1][i]
         /\ call.ret[call.args[2] + 1] = ELLIPSIS
    ELSE call.ret = call.args[1]

\* C11 witness: a text of 2001 characters was clamped to 2000 and the marker
C11_Witness ==
  /\ call.fn = "clampText"
  /\ Len(call.args[1]) = 2001 /\ call.args[2] = 2000
  /\ Len(call.ret) = 2001 /\ call.ret[2001] = ELLIPSIS /\ call.ret[2000] = "x"

\* the tokens of a list
TokenSet(arr) == {arr[i] : i \in 1..Len(arr)}

\* C12: jaccard is symmetric, does not depend on the repetitions in its
\* lists, is 1 for a non-empty list against itself, 0 for two disjoint
\* non-empty lists and 0 for two empty lists.
C12_JaccardLaws ==
  call.fn = "jaccard" =>
    /\ call.ret.den > 0
    /\ call.ret = jaccard(call.args[2], call.args[1])
    /\ \A other \in TokenLists :
         TokenSet(other) = TokenSet(call.args[1]) => jaccard(other, call.args[2]) = call.ret
    /\ (call.args[1] = call.args[2] /\ Len(call.args[1]) > 0) => call.ret.num = call.ret.den
    /\ (Len(call.args[1]) > 0 /\ Len(call.args[2]) > 0
          /\ TokenSet(call.args[1]) \cap TokenSet(call.args[2]) = {}) => call.ret.num = 0
    /\ (Len(call.args[1]) = 0 /\ Len(call.args[2]) = 0) => call.ret.num = 0

\* C12 witness: two different lists with repetitions that share one token of
\* three
C12_Witness ==
  /\ call.fn = "jaccard"
  /\ Len(call.args[1]) = 3 /\ Cardinality(TokenSet(call.args[1])) = 2
  /\ Cardinality(TokenSet(call.args[2])) = 2
  /\ call.ret = [num |-> 1, den |-> 3]

\* the words of a text, as simpleKeywords splits it
WordsOf(s) == split(keywordText(s))
\* how often a word occurs in the text, and where first
Frequency(w, s) == Cardinality({i \in 1..Len(WordsOf(s)) : WordsOf(s)[i] = w})
FirstAt(w, s) == Min({i \in 1..Len(WordsOf(s)) : WordsOf(s)[i] = w})
\* the words of the text that are long enough and no stopwords
Eligible(s, minLen) ==
  {w \in TokenSet(WordsOf(s)) : Len(w) >= minLen /\ w \notin STOPWORDS_PL}
Before(v, w, s) ==
  \/ Frequency(v, s) > Frequency(w, s)
  \/ Frequency(v, s) = Frequency(w, s) /\ FirstAt(v, s) < FirstAt(w, s)

\* C13: simpleKeywords returns at most topN distinct words of the text, none
\* shorter than minLen and none a stopword, by descending frequency, words
\* of equal frequency in the order of their first occurrence; they are the
\* first topN of the eligible words in that order.
C13_TopKeywords ==
  call.fn = "simpleKeywords" =>
    /\ Len(call.ret) <= call.args[3]
    /\ \A k \in 1..Len(call.ret) : call.ret[k] \in Eligible(call.args[1], call.args[2])
    /\ \A k \in 1..Len(call.ret), l \in 1..Len(call.ret) :
         k < l => Before(call.ret[k], call.ret[l], call.args[1])
    /\ \A w \in Eligible(call.args[1], call.args[2]) \ TokenSet(call.ret) :
         /\ Len(call.ret) = call.args[3]
         /\ \A k \in 1..Len(call.ret) : Before(call.ret[k], w, call.args[1])

\* C13 witness: a later but more frequent word was returned before an
\* earlier one, and a third eligible word was cut off by topN
C13_Witness ==
  /\ call.fn = "simpleKeywords"
  /\ call.args[3] = 2 /\ Len(call.ret) = 2
  /\ FirstAt(call.ret[1], call.args[1]) > FirstAt(call.ret[2], call.args[1])
  /\ Cardinality(Eligible(call.args[1], call.args[2])) > 2

\* the spellings of free in either case
FreeSpellings ==
  {<<f, r, e1, e2>> : f \in {"f", "F"}, r \in {"r", "R"}, e1 \in {"e", "E"}, e2 \in {"e", "E"}}

includes(s, sub) ==
  \E i \in 0..(Len(s) - Len(sub)) : \A k \in 1..Len(sub) : s[i + k] = sub[k]

\* valid JSON
VALID_JSON ==
  <<"v", "a", "l", "i", "d", " ", "J", "S", "O", "N">>
\* json
JSON_LOWER ==
  <<"j", "s", "o", "n">>

\* an error object: its identity, its message and what String(e) gives; a
\* thrown string has no message
Error(id, message, str) == [id |-> id, message |-> message, str |-> str]
\* String(e?.message || e) (line 252)
MessageOf(e) == IF Len(e.message) > 0 THEN e.message ELSE e.str

\* the test of line 253 without its second half
IsJsonError_ValidJSONOnly(e) == includes(MessageOf(e), VALID_JSON)

\* msg.includes('valid JSON') || msg.toLowerCase().includes('json') (line 253)
IsJsonError(e) ==
  includes(MessageOf(e), VALID_JSON) \/ includes(toLowerCase(MessageOf(e)), JSON_LOWER)

\* Response is not valid JSON
M_NOT_VALID_JSON ==
  <<"R", "e", "s", "p", "o", "n", "s", "e", " ", "i", "s", " ", "n", "o", "t", " ",
    "v", "a", "l", "i", "d", " ", "J", "S", "O", "N">>
\* Unexpected token < in JSON at position 0
M_UNEXPECTED_TOKEN ==
  <<"U", "n", "e", "x", "p", "e", "c", "t", "e", "d", " ", "t", "o", "k", "e", "n",
    " ", "<", " ", "i", "n", " ", "J", "S", "O", "N", " ", "a", "t", " ", "p", "o",
    "s", "i", "t", "i", "o", "n", " ", "0">>
\* json mode is not enabled
M_JSON_MODE ==
  <<"j", "s", "o", "n", " ", "m", "o", "d", "e", " ", "i", "s", " ", "n", "o", "t",
    " ", "e", "n", "a", "b", "l", "e", "d">>
\* fetch failed
M_FETCH_FAILED ==
  <<"f", "e", "t", "c", "h", " ", "f", "a", "i", "l", "e", "d">>
\* 429 Too Many Requests
M_QUOTA ==
  <<"4", "2", "9", " ", "T", "o", "o", " ", "M", "a", "n", "y", " ", "R", "e", "q",
    "u", "e", "s", "t", "s">>
\* Error
S_ERROR ==
  <<"E", "r", "r", "o", "r">>
\* Bad Json
S_THROWN_JSON ==
  <<"B", "a", "d", " ", "J", "s", "o", "n">>

\* what a generateContent call can reject with, as the error object id
Rejections(id) ==
  {Error(id, M_NOT_VALID_JSON, <<>>), Error(id, M_UNEXPECTED_TOKEN, <<>>),
   Error(id, M_JSON_MODE, <<>>), Error(id, M_FETCH_FAILED, <<>>), Error(id, M_QUOTA, <<>>),
   Error(id, <<>>, S_ERROR), Error(id, <<>>, S_THROWN_JSON)}

\* the prompts generateWithFallback is called with, and the texts a response
\* gives (the empty text when response.text() throws and no part has text)
Prompts == {CV_TEXT, PAGE_TEXT, KEYWORD_TEXT}
ResponseTexts == {<<>>, R_NULL, R_NO_BRACE, R_FENCED}

\* a generateContent call: the generation config of its model and its prompt
Call(config, prompt) ==
  [config |-> config, prompt |-> prompt, status |-> "pending", error |-> NoError]
\* the retry with its prompt changed
RetryCall_OtherPrompt(prompt) == Call("text/plain", prompt \o <<" ">> \o JSON_LOWER)
\* modelPlain.generateContent(prompt) (lines 255-259)
RetryCall(prompt) == Call("text/plain", prompt)

\* the call is made: model.generateContent(prompt) (lines 245-249)
CallPrimary ==
  /\ gpc = "start"
  /\ gcalls' = <<Call("default", gprompt)>>
  /\ gpc' = "primary"
  /\ UNCHANGED <<gprompt, gerr, gout>>
  /\ UNCHANGED notGenerate

\* the primary call resolves: getLLMOutputString gives its text (line 250)
PrimaryResolves ==
  /\ gpc = "primary"
  /\ gcalls' = [gcalls EXCEPT ![1].status = "resolved"]
  /\ \E t \in ResponseTexts : gout' = t
  /\ gpc' = "returned"
  /\ UNCHANGED <<gprompt, gerr>>
  /\ UNCHANGED notGenerate

\* the primary call rejects: the catch of lines 251-267 up to its await
PrimaryRejects ==
  /\ gpc = "primary"
  /\ \E e \in Rejections(1) :
       /\ gerr' = e
       /\ IF IsJsonError(e)
          THEN /\ gcalls' = Append([gcalls EXCEPT ![1].status = "rejected", ![1].error = e],
                                   RetryCall(gprompt))
               /\ gpc' = "retry"
          ELSE /\ gcalls' = [gcalls EXCEPT ![1].status = "rejected", ![1].error = e]
               /\ gpc' = "threw"
  /\ UNCHANGED <<gprompt, gout>>
  /\ UNCHANGED notGenerate

\* the retry resolves: retry.response.text(), or the texts of the parts when
\* that throws (lines 260-264)
RetryResolves ==
  /\ gpc = "retry"
  /\ gcalls' = [gcalls EXCEPT ![2].status = "resolved"]
  /\ \E t \in ResponseTexts : gout' = t
  /\ gpc' = "returned"
  /\ UNCHANGED <<gprompt, gerr>>
  /\ UNCHANGED notGenerate

\* the retry rejects: its error leaves the catch block (line 259)
RetryRejects ==
  /\ gpc = "retry"
  /\ \E e \in Rejections(2) :
       /\ gcalls' = [gcalls EXCEPT ![2].status = "rejected", ![2].error = e]
       /\ gerr' = e
  /\ gpc' = "threw"
  /\ UNCHANGED <<gprompt, gout>>
  /\ UNCHANGED notGenerate

InitGenerate ==
  /\ geminiKey = TRUE
  /\ HandlerIdle /\ RecoveryIdle /\ HelpersIdle /\ DetectIdle /\ ParallelIdle /\ UploadsIdle /\ QuestionsIdle /\ AnalyzeCvIdle /\ DiffIdle
  /\ gpc = "start"
  /\ gprompt \in Prompts
  /\ gcalls = <<>>
  /\ gerr = NoError
  /\ gout = <<>>

NextGenerate ==
  CallPrimary \/ PrimaryResolves \/ PrimaryRejects \/ RetryResolves \/ RetryRejects

SpecGenerate == InitGenerate /\ [][NextGenerate]_vars

(***************************************************************************)
(* Properties of generateWithFallback (checked under SpecGenerate)         *)
(***************************************************************************)
\* the text holds the letters j, s, o, n in a row, in either case
MentionsJson(t) ==
  \E i \in 1..(Len(t) - 3) :
    /\ t[i] \in {"j", "J"} /\ t[i + 1] \in {"s", "S"}
    /\ t[i + 2] \in {"o", "O"} /\ t[i + 3] \in {"n", "N"}
\* the message of the error, or the thrown text when it has no message
StatedMessage(e) == IF e.message # <<>> THEN e.message ELSE e.str
Thrown == gpc = "threw"

\* C14: there is a plain-text retry exactly when the primary call failed
\* with an error whose message mentions JSON; a primary failure with another
\* message is thrown as the same error object after one call; a failure of
\* the retry is thrown to the caller.
C14_RetryOnJsonErrorOnly ==
  /\ Len(gcalls) = 2 <=>
       (Len(gcalls) >= 1 /\ gcalls[1].status = "rejected"
          /\ MentionsJson(StatedMessage(gcalls[1].error)))
  /\ Len(gcalls) = 2 => gcalls[2].config = "text/plain" /\ gcalls[1].config = "default"
  /\ (Len(gcalls) = 1 /\ gcalls[1].status = "rejected") =>
       Thrown /\ gerr = gcalls[1].error /\ gerr.id = 1
  /\ (Len(gcalls) = 2 /\ gcalls[2].status = "rejected") =>
       Thrown /\ gerr = gcalls[2].error /\ gerr.id = 2
  /\ Thrown => gcalls[Len(gcalls)].status = "rejected"

\* C14 witness: a retry was made after an error that says json in lower
\* case, and failed in turn
C14_Witness ==
  /\ Thrown
  /\ Len(gcalls) = 2
  /\ gcalls[1].error.message = M_JSON_MODE
  /\ gerr.id = 2 /\ gerr.message = M_FETCH_FAILED

\* C15: the model is called at most twice, never twice at a time, the retry
\* only after the primary call has failed, and with the same prompt.
C15_SequentialRetrySamePrompt ==
  /\ Len(gcalls) <= 2
  /\ Cardinality({i \in 1..Len(gcalls) : gcalls[i].status = "pending"}) <= 1
  /\ Len(gcalls) = 2 =>
       /\ gcalls[1].status = "rejected"
       /\ gcalls[2].prompt = gcalls[1].prompt
  /\ \A i \in 1..Len(gcalls) : gcalls[i].prompt = gprompt

\* C15 witness: the retry is in flight after the failed primary call
C15_Witness ==
  /\ gpc = "retry"
  /\ Len(gcalls) = 2
  /\ gcalls[1].status = "rejected" /\ gcalls[2].status = "pending"
  /\ gcalls[2].prompt = gprompt


(***************************************************************************)
(* POST /api/detect-industry (lines 595-626)                               *)
(***************************************************************************)
\* INDUSTRY_KEYWORDS (lines 580-593), in the order of its keys
INDUSTRY_KEYWORDS ==
  <<[industry |-> <<"I", "T">>,
      keywords |-> <<
        <<"p", "r", "o", "g", "r", "a", "m", "i", "s", "t", "a">>,
        <<"d", "e", "v", "e", "l", "o", "p", "e", "r">>,
        <<"f", "r", "o", "n", "t", "e", "n", "d">>,
        <<"b", "a", "c", "k", "e", "n", "d">>,
        <<"f", "u", "l", "l", "s", "t", "a", "c", "k">>,
        <<"j", "a", "v", "a", "s", "c", "r", "i", "p", "t">>,
        <<"p", "y", "t", "h", "o", "n">>,
        <<"j", "a", "v", "a">>,
        <<"s", "o", "f", "t", "w", "a", "r", "e">>,
        <<"i", "t">>,
        <<"d", "e", "v", "o", "p", "s">>,
        <<"k", "u", "b", "e", "r", "n", "e", "t", "e", "s">>,
        <<"d", "o", "c", "k", "e", "r">>,
        <<"c", "l", "o", "u", "d">>>>],
     [industry |-> <<"F", "i", "n", "a", "n", "s", "e">>,
      keywords |-> <<
        <<"k", "s", "i", "U+0119", "g", "o", "w", "y">>,
        <<"f", "i", "n", "a", "n", "s", "e">>,
        <<"r", "a", "c", "h", "u", "n", "k", "o", "w", "o", "U+015B", "U+0107">>,
        <<"a", "u", "d", "y", "t">>,
        <<"b", "a", "n", "k", "o", "w", "o", "U+015B", "U+0107">>,
        <<"a", "n", "a", "l", "i", "z", "a", " ", "f", "i", "n", "a", "n", "s", "o", "w", "a">>,
        <<"i", "n", "w", "e", "s", "t", "y", "c", "j", "e">>,
        <<"f", "p", "&", "a">>,
        <<"c", "o", "n", "t", "r", "o", "l", "l", "i", "n", "g">>>>],
     [industry |-> <<"M", "a", "r", "k", "e", "t", "i", "n", "g">>,
      keywords |-> <<
        <<"m", "a", "r", "k", "e", "t", "i", "n", "g">>,
        <<"s", "o", "c", "i", "a", "l", " ", "m", "e", "d", "i", "a">>,
        <<"k", "a", "m", "p", "a", "n", "i", "a">>,
        <<"r", "e", "k", "l", "a", "m", "a">>,
        <<"s", "e", "o">>,
        <<"s", "e", "m">>,
        <<"c", "o", "n", "t", "e", "n", "t">>>>],
     [industry |-> <<"S", "p", "r", "z", "e", "d", "a", "U+017C">>,
      keywords |-> <<
        <<"s", "p", "r", "z", "e", "d", "a", "w", "c", "a">>,
        <<"s", "a", "l", "e", "s">>,
        <<"a", "c", "c", "o", "u", "n", "t", " ", "m", "a", "n", "a", "g", "e", "r">>,
        <<"k", "l", "i", "e", "n", "t">>,
        <<"h", "a", "n", "d", "e", "l">>,
        <<"n", "e", "g", "o", "c", "j", "a", "c", "j", "e">>>>],
     [industry |-> <<"H", "R">>,
      keywords |-> <<
        <<"r", "e", "k", "r", "u", "t", "a", "c", "j", "a">>,
        <<"h", "r">>,
        <<"k", "a", "d", "r", "y">>,
        <<"z", "a", "s", "o", "b", "y", " ", "l", "u", "d", "z", "k", "i", "e">>,
        <<"o", "n", "b", "o", "a", "r", "d", "i", "n", "g">>>>],
     [industry |-> <<"L", "o", "g", "i", "s", "t", "y", "k", "a">>,
      keywords |-> <<
        <<"l", "o", "g", "i", "s", "t", "y", "k", "a">>,
        <<"t", "r", "a", "n", "s", "p", "o", "r", "t">>,
        <<"m", "a", "g", "a", "z", "y", "n">>,
        <<"U+0142", "a", "U+0144", "c", "u", "c", "h", " ", "d", "o", "s", "t", "a", "w">>,
        <<"s", "p", "e", "d", "y", "c", "j", "a">>>>],
     [industry |-> <<"I", "n", "U+017C", "y", "n", "i", "e", "r", "i", "a">>,
      keywords |-> <<
        <<"i", "n", "U+017C", "y", "n", "i", "e", "r">>,
        <<"p", "r", "o", "j", "e", "k", "t", "o", "w", "a", "n", "i", "e">>,
        <<"m", "e", "c", "h", "a", "n", "i", "k", "a">>,
        <<"b", "u", "d", "o", "w", "a", " ", "m", "a", "s", "z", "y", "n">>,
        <<"a", "u", "t", "o", "m", "a", "t", "y", "k", "a">>,
        <<"c", "n", "c">>>>],
     [industry |-> <<"P", "r", "a", "w", "o">>,
      keywords |-> <<
        <<"p", "r", "a", "w", "n", "i", "k">>,
        <<"r", "a", "d", "c", "a", " ", "p", "r", "a", "w", "n", "y">>,
        <<"a", "d", "w", "o", "k", "a", "t">>,
        <<"p", "r", "a", "w", "o">>,
        <<"u", "m", "o", "w", "a">>,
        <<"k", "o", "d", "e", "k", "s">>>>],
     [industry |-> <<"Z", "d", "r", "o", "w", "i", "e">>,
      keywords |-> <<
        <<"l", "e", "k", "a", "r", "z">>,
        <<"p", "i", "e", "l", "U+0119", "g", "n", "i", "a", "r", "k", "a">>,
        <<"m", "e", "d", "y", "c", "y", "n", "a">>,
        <<"s", "z", "p", "i", "t", "a", "l">>,
        <<"p", "a", "c", "j", "e", "n", "t">>,
        <<"r", "e", "h", "a", "b", "i", "l", "i", "t", "a", "c", "j", "a">>>>],
     [industry |-> <<"E", "d", "u", "k", "a", "c", "j", "a">>,
      keywords |-> <<
        <<"n", "a", "u", "c", "z", "y", "c", "i", "e", "l">>,
        <<"w", "y", "k", "U+0142", "a", "d", "o", "w", "c", "a">>,
        <<"s", "z", "k", "o", "l", "e", "n", "i", "e">>,
        <<"e", "d", "u", "k", "a", "c", "j", "a">>,
        <<"k", "u", "r", "s">>,
        <<"u", "c", "z", "e", "U+0144">>>>],
     [industry |-> <<"C", "o", "n", "s", "u", "l", "t", "i", "n", "g">>,
      keywords |-> <<
        <<"k", "o", "n", "s", "u", "l", "t", "a", "n", "t">>,
        <<"d", "o", "r", "a", "d", "z", "t", "w", "o">>,
        <<"s", "t", "r", "a", "t", "e", "g", "i", "a">>,
        <<"a", "n", "a", "l", "i", "z", "a", " ", "b", "i", "z", "n", "e", "s", "o", "w", "a">>>>],
     [industry |-> <<"I", "n", "n", "e">>,
      keywords |-> <<>>]>>

\* the first category of the table with a keyword in the page, or none
RECURSIVE categoryFrom(_, _)
categoryFrom(i, pageText) ==
  IF i > Len(INDUSTRY_KEYWORDS) THEN <<>>
  ELSE IF \E k \in 1..Len(INDUSTRY_KEYWORDS[i].keywords) :
            includes(pageText, INDUSTRY_KEYWORDS[i].keywords[k])
       THEN INDUSTRY_KEYWORDS[i].industry
       ELSE categoryFrom(i + 1, pageText)

\* the loops without the break of the inner one: the last category wins
RECURSIVE detectIndustry_LastCategory(_)
detectIndustry_LastCategory(pageTexts) ==
  IF Len(pageTexts) = 0 THEN <<>>
  ELSE LET hits == {i \in 1..Len(INDUSTRY_KEYWORDS) :
                      \E k \in 1..Len(INDUSTRY_KEYWORDS[i].keywords) :
                        includes(pageTexts[1], INDUSTRY_KEYWORDS[i].keywords[k])}
       IN IF Len(pageTexts[1]) > 0 /\ hits # {}
          THEN INDUSTRY_KEYWORDS[Max(hits)].industry
          ELSE detectIndustry_LastCategory(Tail(pageTexts))

\* detectedIndustry after the loops of lines 611-620
RECURSIVE detectIndustry(_)
detectIndustry(pageTexts) ==
  IF Len(pageTexts) = 0 THEN <<>>
  ELSE IF Len(pageTexts[1]) > 0 /\ Len(categoryFrom(1, pageTexts[1])) > 0
       THEN categoryFrom(1, pageTexts[1])
       ELSE detectIndustry(Tail(pageTexts))

\* Brak poprawnych linków
MSG_NO_LINKS ==
  <<"B", "r", "a", "k", " ", "p", "o", "p", "r", "a", "w", "n", "y", "c", "h", " ",
    "l", "i", "n", "k", "U+00F3", "w">>

\* the bodies axios.get can resolve with
\* Senior Python Developer (HR Tech)
D_DEVELOPER_HR ==
  <<"S", "e", "n", "i", "o", "r", " ", "P", "y", "t", "h", "o", "n", " ", "D", "e",
    "v", "e", "l", "o", "p", "e", "r", " ", "(", "H", "R", " ", "T", "e", "c", "h",
    ")">>
\* Rekrutacja: specjalista HR
D_RECRUITER ==
  <<"R", "e", "k", "r", "u", "t", "a", "c", "j", "a", ":", " ", "s", "p", "e", "c",
    "j", "a", "l", "i", "s", "t", "a", " ", "H", "R">>
\* PRAWNIK, umowa
D_LAWYER ==
  <<"P", "R", "A", "W", "N", "I", "K", ",", " ", "u", "m", "o", "w", "a">>
\* Credit
D_CREDIT ==
  <<"C", "r", "e", "d", "i", "t">>
\* Lorem
D_NONE ==
  <<"L", "o", "r", "e", "m">>
PageBodies == {D_DEVELOPER_HR, D_RECRUITER, D_LAWYER, D_CREDIT, D_NONE, <<>>}

\* the number of URLs a request of POST /api/detect-industry carries at most
MaxPages == 3

\* lines 597-600: the request arrives with its URLs
DetectReceive ==
  /\ dpc = "idle"
  /\ \E n \in 0..MaxPages :
       /\ durls' = n
       /\ IF n = 0
          THEN /\ dres' = Respond(dres, 400, ErrorBody(MSG_NO_LINKS))
               /\ dpc' = "done"
          ELSE /\ dpc' = "fetch"
               /\ UNCHANGED dres
  /\ UNCHANGED pages
  /\ UNCHANGED notDetect

\* await Promise.all(...) of lines 601-609: each page is the body in lower
\* case, or the empty text when axios.get rejects
DetectFetch ==
  /\ dpc = "fetch"
  /\ \E fetched \in [1..durls -> BOOLEAN], bodies \in [1..durls -> PageBodies] :
       pages' = [i \in 1..durls |-> IF fetched[i] THEN toLowerCase(bodies[i]) ELSE <<>>]
  /\ dpc' = "detect"
  /\ UNCHANGED <<durls, dres>>
  /\ UNCHANGED notDetect

\* lines 611-621
DetectAnswer ==
  /\ dpc = "detect"
  /\ dres' = Respond(dres, 200, Obj(<<K_industry>>, <<Str(detectIndustry(pages))>>))
  /\ dpc' = "done"
  /\ UNCHANGED <<durls, pages>>
  /\ UNCHANGED notDetect

InitDetect ==
  /\ geminiKey = TRUE
  /\ HandlerIdle /\ RecoveryIdle /\ GenerateIdle /\ HelpersIdle /\ DetectIdle /\ ParallelIdle /\ UploadsIdle /\ QuestionsIdle /\ AnalyzeCvIdle /\ DiffIdle

NextDetect == DetectReceive \/ DetectFetch \/ DetectAnswer

SpecDetect == InitDetect /\ [][NextDetect]_vars

(***************************************************************************)
(* Properties of POST /api/detect-industry (checked under SpecDetect)      *)
(***************************************************************************)
\* the categories with a keyword that is a substring of the page
CategoriesIn(page) ==
  {i \in 1..Len(INDUSTRY_KEYWORDS) :
     \E k \in 1..Len(INDUSTRY_KEYWORDS[i].keywords) :
       \E at \in 1..(Len(page) - Len(INDUSTRY_KEYWORDS[i].keywords[k]) + 1) :
         SubSeq(page, at, at + Len(INDUSTRY_KEYWORDS[i].keywords[k]) - 1)
           = INDUSTRY_KEYWORDS[i].keywords[k]}
\* the pages, in the order of the URLs, that were fetched and hold a keyword
MatchingPages == {p \in 1..Len(pages) : pages[p] # <<>> /\ CategoriesIn(pages[p]) # {}}
Detected == Get(dres.body, K_industry)

\* C20: the category returned is, for the first page in URL order that holds
\* any keyword (failed fetches skipped), the earliest category of the table
\* with a keyword in that page; it is the empty string when no page
\* matches, and never Inne.
C20_FirstMatchWins ==
  (dpc = "done" /\ durls > 0) =>
    /\ dres.sent = 1 /\ dres.status = 200
    /\ IsString(Detected)
    /\ Detected.str # INNE
    /\ IF MatchingPages = {} THEN Detected.str = <<>>
       ELSE Detected.str =
              INDUSTRY_KEYWORDS[Min(CategoriesIn(pages[Min(MatchingPages)]))].industry

\* C20 witness: the first URL failed, the second page holds keywords of two
\* categories and the earlier one was returned, a later page matching
\* another category
C20_Witness ==
  /\ dpc = "done" /\ durls = 3
  /\ pages[1] = <<>>
  /\ Cardinality(CategoriesIn(pages[2])) = 2
  /\ Detected.str = INDUSTRY_KEYWORDS[1].industry
  /\ CategoriesIn(pages[3]) # {} /\ 1 \notin CategoriesIn(pages[3])


(***************************************************************************)
(* POST /api/analyze-cv-multiple for requests with several posting URLs    *)
(***************************************************************************)
\* the number of posting URLs such a request carries at most
MaxPostings == 3

\* a request with a CV file, up to MaxPostings URLs and no other field
ReceivePostings ==
  ReceiveFrom({TRUE}, {Undefined}, 0..MaxPostings, {Undefined}, {Undefined}, {"A"})

InitFanOut ==
  /\ geminiKey = TRUE
  /\ HandlerIdle /\ RecoveryIdle /\ GenerateIdle /\ HelpersIdle /\ DetectIdle /\ ParallelIdle /\ UploadsIdle /\ QuestionsIdle /\ AnalyzeCvIdle /\ DiffIdle

NextFanOut ==
  \/ ReceivePostings
  \/ Validate
  \/ ExtractCV
  \/ ExtractCVFails
  \/ FetchJDs
  \/ ClassifyCV
  \/ ClassifyJD
  \/ Generate
  \/ GenerateFails
  \/ Answer

SpecFanOut == InitFanOut /\ [][NextFanOut]_vars

(***************************************************************************)
(* Properties of the fetch of the postings (checked under SpecFanOut) and  *)
(* of the upload (checked under Spec)                                      *)
(***************************************************************************)
\* Promise.all of the fetches has resolved
FetchesDone == pc \in {"classifyCV", "classifyJD", "generate", "parse"} \/ llmRaw # Undefined
FailedFetches == {i \in 1..Len(fetches) : fetches[i] # "article"}

\* C16: no outcome of the fetches makes the request fail: whatever subset of
\* the postings is unreachable, the handler goes on to the classification
\* and the prompt with the sentinel in place of each of them, a 500 is
\* never the error of a fetch, and once the model has replied the request is
\* answered 200 with an analysis.
C16_FetchFailuresTolerated ==
  /\ (pc = "done" /\ res.status = 500) =>
       Get(res.body, K_details) \in {Str(ERR_EXTRACT), Str(ERR_TYPE), Str(ERR_GENERATE)}
  /\ FetchesDone =>
       /\ Len(fetches) = req.urls
       /\ FailedFetches # {} => includes(combinedJD, FETCH_SENTINEL)
  /\ (pc = "done" /\ llmRaw # Undefined) => res.status = 200 /\ HasShape(Analysis)

\* C16 witness: of three postings one was rejected and one gave no article,
\* and the request was answered with an analysis
C16_Witness ==
  /\ Answered
  /\ fetches = <<"rejected", "article", "noArticle">>
  /\ HasShape(Analysis)
  /\ parsed.ok

\* C17 (as stated): with 3 posting URLs whose fetches all fail, the combined
\* posting text is the sentinel placeholder string, and the request is
\* answered 200 with an analysis.
C17_AllFailedGivesSentinel ==
  (FetchesDone /\ req.urls = 3 /\ FailedFetches = {1, 2, 3}) =>
    /\ combinedJD \in {FETCH_SENTINEL, NO_POSTINGS}
    /\ (pc = "done" /\ llmRaw # Undefined) => res.status = 200 /\ HasShape(Analysis)

\* C17 witness: three fetches failed and the request was answered 200 with
\* the three sentinels joined by the separator as the posting text
C17_Witness ==
  /\ Answered
  /\ req.urls = 3 /\ FailedFetches = {1, 2, 3}
  /\ combinedJD = join(<<FETCH_SENTINEL, FETCH_SENTINEL, FETCH_SENTINEL>>, JD_SEPARATOR)
  /\ HasShape(Analysis)

\* C18 (as stated): for a request that arrived with a CV file, the file is
\* unlinked on every exit path of the handler.
C18_UploadUnlinkedOnEveryExit ==
  (pc = "done" /\ req.file) => tmpFile = "unlinked"

\* C18 witness: a request with a file was answered 400 for the missing API
\* key and the file is still there
C18_Witness ==
  /\ pc = "done"
  /\ req.file /\ ~geminiKey
  /\ res.status = 400
  /\ tmpFile = "present"

(***************************************************************************)
(* The fan-out of the posting fetches (lines 465-469 and 371-372), fetch   *)
(* by fetch                                                                *)
(***************************************************************************)
\* the text Readability extracts from the page behind each URL
POSTINGS ==
  << <<"J", "a", "v", "a">>, <<"S", "Q", "L">>, <<"E", "x", "c", "e", "l">>,
     <<"R", "u", "s", "t">>, <<"G", "o">> >>

\* what the fetch of the i-th URL resolves to
fetchPosting(i, outcome) ==
  IF outcome = "article"
  THEN clampText(collapseWhitespace(POSTINGS[i]), LIMITS_jobSingleChars)
  ELSE getJobDescriptionWithReadability(outcome).val

Pending == [state |-> "pending", outcome |-> "none", value |-> <<>>]
Fulfilled(i, outcome) ==
  [state |-> "fulfilled", outcome |-> outcome, value |-> fetchPosting(i, outcome)]

\* the array in the order the fetches completed
PromiseAll_CompletionOrder(ps, order) == [k \in 1..Len(ps) |-> ps[order[k]].value]
\* what Promise.all resolves to: the values in the order of its argument
PromiseAll(ps, order) == [i \in 1..Len(ps) |-> ps[i].value]

\* the handler has the URLs of the request
ParallelReceive ==
  /\ ppc = "idle"
  /\ \E n \in 0..MaxPostings : purls' = n
  /\ ppc' = "map"
  /\ UNCHANGED <<promises, settleOrder, pjoined>>
  /\ UNCHANGED notParallel

\* urls.map calls getJobDescriptionWithReadability for the next URL, which
\* runs up to its await of axios.get and returns its promise
StartFetch ==
  /\ ppc = "map"
  /\ Len(promises) < purls
  /\ promises' = Append(promises, Pending)
  /\ UNCHANGED <<ppc, purls, settleOrder, pjoined>>
  /\ UNCHANGED notParallel

\* urls.map has returned: await Promise.all(...) suspends the handler
AwaitAll ==
  /\ ppc = "map"
  /\ Len(promises) = purls
  /\ ppc' = "await"
  /\ UNCHANGED <<purls, promises, settleOrder, pjoined>>
  /\ UNCHANGED notParallel

\* one of the fetches in flight completes, with an article or a failure; no
\* callback runs before the handler has yielded at its await
SettleFetch ==
  /\ ppc = "await"
  /\ \E i \in 1..Len(promises), outcome \in FetchOutcomes :
       /\ promises[i].state = "pending"
       /\ promises' = [promises EXCEPT ![i] = Fulfilled(i, outcome)]
       /\ settleOrder' = Append(settleOrder, i)
  /\ UNCHANGED <<ppc, purls, pjoined>>
  /\ UNCHANGED notParallel

\* Promise.all resolves once every promise is fulfilled; the handler resumes
\* with combinedJD and goes on to classifyText
Combine ==
  /\ ppc = "await"
  /\ \A i \in 1..Len(promises) : promises[i].state = "fulfilled"
  /\ LET jobDescriptions == IF purls > 0 THEN PromiseAll(promises, settleOrder) ELSE <<>>
     IN pjoined' = clampText(IF Len(jobDescriptions) > 0
                             THEN join(jobDescriptions, JD_SEPARATOR)
                             ELSE NO_POSTINGS,
                             LIMITS_jobTotalChars)
  /\ ppc' = "classify"
  /\ UNCHANGED <<purls, promises, settleOrder>>
  /\ UNCHANGED notParallel

InitParallel ==
  /\ geminiKey = TRUE
  /\ HandlerIdle /\ RecoveryIdle /\ GenerateIdle /\ HelpersIdle /\ DetectIdle /\ ParallelIdle /\ UploadsIdle /\ QuestionsIdle /\ AnalyzeCvIdle /\ DiffIdle

NextParallel ==
  \/ ParallelReceive
  \/ StartFetch
  \/ AwaitAll
  \/ SettleFetch
  \/ Combine

SpecParallel == InitParallel /\ [][NextParallel]_vars

\* the text the posting behind the i-th URL stands for in the combined text
PostingOrSentinel(i) ==
  IF promises[i].outcome = "article" THEN POSTINGS[i] ELSE FETCH_SENTINEL

\* C21: no fetch completes before all of them are started, the handler goes
\* on to the classification only when every fetch has completed, and the
\* combined text then lists the postings in the order of the URLs, whatever
\* the order of completion.
C21_FanOutWaitsAndKeepsOrder ==
  /\ settleOrder # <<>> => Len(promises) = purls
  /\ ppc = "classify" =>
       /\ Len(promises) = purls
       /\ \A i \in 1..purls : promises[i].state = "fulfilled"
       /\ purls > 0 =>
            pjoined = join([i \in 1..purls |-> PostingOrSentinel(i)], JD_SEPARATOR)

\* C21 witness: three fetches completed in the order 3, 1, 2, the second one
\* failed, and the handler went on
C21_Witness ==
  /\ ppc = "classify"
  /\ purls = 3
  /\ settleOrder = <<3, 1, 2>>
  /\ promises[2].outcome = "rejected"
  /\ promises[1].outcome = "article" /\ promises[3].outcome = "article"

(***************************************************************************)
(* Requests with an upload in flight at the same time (lines 49-52, 315,   *)
(* 451, 360-362, 574-576)                                                  *)
(***************************************************************************)
\* filename: Date.now() + '-' + file.originalname, in uploads/
filename(at, originalname) == [at |-> at, name |-> originalname]

\* the clock advances by a millisecond
Tick ==
  /\ now < MaxClock
  /\ now' = now + 1
  /\ UNCHANGED <<inflight, disk>>
  /\ UNCHANGED notUploads

\* multer stores the upload of a request, over what the path holds, and the
\* handler sets uploadedFilePath = req.file.path
StoreUpload ==
  /\ \E r \in 1..NumRequests, originalname \in OriginalNames :
       /\ inflight[r].at = "none"
       /\ inflight' = [inflight EXCEPT ![r] = [at |-> "extract",
                                               path |-> filename(now, originalname),
                                               read |-> -1]]
       /\ disk' = [disk EXCEPT ![filename(now, originalname)] = r]
  /\ UNCHANGED now
  /\ UNCHANGED notUploads

\* extractTextFromCV(uploadedFilePath): throws when the file does not exist,
\* reads what the path holds otherwise
ReadUpload ==
  /\ \E r \in 1..NumRequests :
       /\ inflight[r].at = "extract"
       /\ inflight' = [inflight EXCEPT ![r].at = "finally",
                                       ![r].read = disk[inflight[r].path]]
  /\ UNCHANGED <<now, disk>>
  /\ UNCHANGED notUploads

\* the finally block: fs.unlink(uploadedFilePath, () => {})
UnlinkUpload ==
  /\ \E r \in 1..NumRequests :
       /\ inflight[r].at = "finally"
       /\ inflight' = [inflight EXCEPT ![r].at = "done"]
       /\ disk' = [disk EXCEPT ![inflight[r].path] = 0]
  /\ UNCHANGED now
  /\ UNCHANGED notUploads

InitUploads ==
  /\ geminiKey = TRUE
  /\ HandlerIdle /\ RecoveryIdle /\ GenerateIdle /\ HelpersIdle /\ DetectIdle /\ ParallelIdle /\ UploadsIdle /\ QuestionsIdle /\ AnalyzeCvIdle /\ DiffIdle

NextUploads ==
  \/ Tick
  \/ StoreUpload
  \/ ReadUpload
  \/ UnlinkUpload

SpecUploads == InitUploads /\ [][NextUploads]_vars

InFlight(r) == inflight[r].at \in {"extract", "finally"}

\* C22 (as stated): two requests in flight at the same time never have the
\* same upload path, and the path of a request that is still to read its
\* file holds that request's upload: no other upload has overwritten it and
\* no other request's cleanup has removed it.
C22_NoSharedUploadPath ==
  /\ \A r, q \in 1..NumRequests :
       (r # q /\ InFlight(r) /\ InFlight(q)) => inflight[r].path # inflight[q].path
  /\ \A r \in 1..NumRequests :
       inflight[r].at = "extract" => disk[inflight[r].path] = r

\* C22 witness: two uploads of the same name arrived in the same
\* millisecond; one request read the other's upload and deleted it, and the
\* other found no file
C22_Witness ==
  /\ inflight[1].path = inflight[2].path
  /\ inflight[1].at = "done" /\ inflight[1].read = 2
  /\ inflight[2].at = "finally" /\ inflight[2].read = 0

(***************************************************************************)
(* POST /api/analyze-cv-multiple when every await settles                  *)
(***************************************************************************)
\* a request with or without a file, with at most MaxUrls posting URLs
ReceiveAny ==
  ReceiveFrom(BOOLEAN, {Undefined}, 0..MaxUrls, {Undefined}, {Undefined}, {"A"})

NextSettling ==
  \/ ReceiveAny
  \/ Validate
  \/ ExtractCV
  \/ ExtractCVFails
  \/ FetchJDs
  \/ ClassifyCV
  \/ ClassifyJD
  \/ Generate
  \/ GenerateFails
  \/ Answer

\* where the handler can be
Positions ==
  {"idle", "validate", "extract", "fetch", "classifyCV", "classifyJD", "generate", "parse",
   "done"}

\* the handler of a request that is not answered yet moves on
Advance ==
  /\ pc \notin {"idle", "done"}
  /\ pc' \in Positions
  /\ pc' # pc

\* every await of the handler settles: extractTextFromCV, the fetches (axios
\* has a timeout), classifyText and generateWithFallback resolve or reject,
\* and the synchronous code between them runs
SpecSettling == Init /\ [][NextSettling]_vars /\ WF_pc(Advance)

sanitizeStringArray_NoFilter(arr, maxLen) ==
  IF ~IsArray(arr) THEN <<>>
  ELSE [i \in 1..Len(arr.items) |->
          clampText(trim(JSString(OrElse(arr.items[i], Str(<<>>)))), maxLen)]

\* sanitizeStringArray (lines 182-185): the texts of the items
sanitizeStringArray(arr, maxLen) ==
  IF ~IsArray(arr) THEN <<>>
  ELSE SelectSeq([i \in 1..Len(arr.items) |->
                    clampText(trim(JSString(OrElse(arr.items[i], Str(<<>>)))), maxLen)],
                 LAMBDA item : Len(item) > 0)

\* an array of strings
StrArr(texts) == Arr([i \in 1..Len(texts) |-> Str(texts[i])])

\* let out = { pytania: { kompetencje_miekkie: [], kompetencje_twarde: [] } }
QuestionsDefault ==
  Obj(<<K_pytania>>,
      <<Obj(<<K_kompetencje_miekkie, K_kompetencje_twarde>>, <<Arr(<<>>), Arr(<<>>)>>)>>)

\* a value that has no properties of its own to assign to: in a module
\* (strict mode) an assignment to a property of it throws a TypeError
IsPrimitive(v) == v.kind \in {"boolean", "number", "string"}

\* lines 425-429: out, out.pytania and the two lists, or the TypeError of
\* reading a property of null or of assigning a property of a primitive
QuestionsOut(parsedReply, soft, hard) ==
  LET out == IF parsedReply.ok THEN parsedReply.val ELSE QuestionsDefault
      pytania == OrElse(Get(out, K_pytania), EmptyObj)
  IN IF out.kind \in {"null", "undefined"} \/ IsPrimitive(out) \/ IsPrimitive(pytania)
     THEN Failed
     ELSE [ok |-> TRUE,
           val |-> [out |-> out,
                    pytania |-> pytania,
                    soft |-> sliceTo(sanitizeStringArray(Get(pytania, K_kompetencje_miekkie),
                                                         LIMITS_itemChars), soft),
                    hard |-> sliceTo(sanitizeStringArray(Get(pytania, K_kompetencje_twarde),
                                                         LIMITS_itemChars), hard)]]

RECURSIVE PutAll(_, _, _)
\* { ...o, k1: v1, k2: v2, ... }
PutAll(o, keys, items) ==
  IF Len(keys) = 0 THEN o
  ELSE PutAll(Put(o, keys[1], items[1]), Tail(keys), Tail(items))

\* line 431 as JSON.stringify writes it: the lists are properties of
\* out.pytania, which an array does not serialise; an array out is spread
\* by its indices
QuestionsBody(q, class) ==
  LET pytania == IF IsArray(q.pytania) THEN q.pytania
                 ELSE Put(Put(q.pytania, K_kompetencje_miekkie, StrArr(q.soft)),
                          K_kompetencje_twarde, StrArr(q.hard))
      out == IF IsArray(q.out)
             THEN Obj([i \in 1..Len(q.out.items) |-> Digits(i - 1)] \o <<K_pytania>>,
                      q.out.items \o <<pytania>>)
             ELSE Put(q.out, K_pytania, pytania)
      meta == Obj(<<K_industry_jd, K_role_jd>>,
                  <<Get(class, K_industry), Get(class, K_role_hint)>>)
  IN Put(PutAll(Obj(<<K_status>>, <<Str(SUCCESS)>>), out.keys, out.items), K_meta, meta)

\* 'Błąd generacji pytań'
MSG_QUESTIONS_FAILED ==
  <<"B", "U+0142", "U+0105", "d", " ", "g", "e", "n", "e", "r", "a", "c", "j", "i",
    " ", "p", "y", "t", "a", "U+0144">>

\* a reply in the format the prompt asks for (line 417), with the given items
QuestionsReply(soft, hard) ==
  Braces(<<Member(K_pytania,
                  Braces(<<Member(K_kompetencje_miekkie, Brackets(soft)),
                           Member(K_kompetencje_twarde, Brackets(hard))>>))>>)
\* soft: "a", "", " b ", null, 0, "c"; hard: 201 x, 5, true, ["x","y"], "  "
Q_MIXED ==
  QuestionsReply(<<Quoted(<<"a">>), Quoted(<<>>), Quoted(<<" ", "b", " ">>), R_NULL, R_ZERO,
                   Quoted(<<"c">>)>>,
                 <<Quoted(Repeat("x", LIMITS_itemChars + 1)), R_NUMBER, R_TRUE,
                   Brackets(<<Quoted(<<"x">>), Quoted(<<"y">>)>>), Quoted(<<" ", " ">>)>>)
\* {"pytania":5}
Q_PYTANIA_NUMBER == Braces(<<Member(K_pytania, R_NUMBER)>>)
\* {"pytania":["a"]}
Q_PYTANIA_ARRAY == Braces(<<Member(K_pytania, Brackets(Items(1)))>>)
\* {"pytania":null}
Q_PYTANIA_NULL == Braces(<<Member(K_pytania, R_NULL)>>)
\* {"pytania":{"kompetencje_miekkie":"ab"}}
Q_LIST_STRING ==
  Braces(<<Member(K_pytania, Braces(<<Member(K_kompetencje_miekkie, Quoted(<<"a", "b">>))>>))>>)

\* what generateWithFallback can resolve to
QuestionReplies ==
  {QuestionsReply(Items(2), Items(2)), QuestionsReply(Items(7), Items(10)),
   QuestionsReply(Items(8), Items(11)), QuestionsReply(Items(1), Items(0)),
   Q_MIXED, Q_PYTANIA_NUMBER, Q_PYTANIA_ARRAY, Q_PYTANIA_NULL, Q_LIST_STRING,
   Braces(<<>>), R_NULL, R_NUMBER, R_STRING, R_ARRAY, R_TRUE, R_NO_BRACE, R_FENCED, <<>>}

\* the catch block (lines 432-435)
QuestionsFail(msg) ==
  /\ qres' = Respond(qres, 500,
                     Obj(<<K_error, K_details>>, <<Str(MSG_QUESTIONS_FAILED), Str(msg)>>))
  /\ qpc' = "done"

\* express.json has parsed the body and express calls the handler
QuestionsReceive ==
  /\ qpc = "idle"
  /\ \E plan \in Plans, urls \in 0..MaxUrls : qreq' = [plan |-> plan, urls |-> urls]
  /\ qpc' = "fetch"
  /\ UNCHANGED <<qjd, qclass, qraw, qout, qres>>
  /\ UNCHANGED notQuestions

\* lines 407-411
QuestionsFetch ==
  /\ qpc = "fetch"
  /\ \E outcomes \in [1..qreq.urls -> FetchOutcomes] :
       LET jobDescriptions ==
             [i \in 1..qreq.urls |-> getJobDescriptionWithReadability(outcomes[i]).val]
       IN qjd' = IF qreq.urls > 0
                 THEN clampText(join(jobDescriptions, JD_SEPARATOR), LIMITS_jobTotalChars)
                 ELSE <<>>
  /\ qpc' = "classify"
  /\ UNCHANGED <<qreq, qclass, qraw, qout, qres>>
  /\ UNCHANGED notQuestions

\* await classifyText(...) resolves (line 413), then the prompt (415-422),
\* which reads jdClass.industry
QuestionsClassify ==
  /\ qpc = "classify"
  /\ \E c \in JdClasses :
       /\ qclass' = c
       /\ IF c.kind = "null"
          THEN QuestionsFail(ERR_TYPE)
          ELSE qpc' = "generate" /\ UNCHANGED qres
  /\ UNCHANGED <<qreq, qjd, qraw, qout>>
  /\ UNCHANGED notQuestions

\* await generateWithFallback(prompt) resolves (line 423)
QuestionsGenerate ==
  /\ qpc = "generate"
  /\ \E r \in QuestionReplies : qraw' = Str(r)
  /\ qpc' = "parse"
  /\ UNCHANGED <<qreq, qjd, qclass, qout, qres>>
  /\ UNCHANGED notQuestions

\* await generateWithFallback(prompt) rejects
QuestionsGenerateFails ==
  /\ qpc = "generate"
  /\ QuestionsFail(ERR_GENERATE)
  /\ UNCHANGED <<qreq, qjd, qclass, qraw, qout>>
  /\ UNCHANGED notQuestions

\* lines 424-431, or the catch block
QuestionsAnswer ==
  /\ qpc = "parse"
  /\ qout' = extractAndParseJSON(qraw.str)
  /\ LET plan == PlanOfQuestions(qreq.plan)
         q == QuestionsOut(qout', NumSoft(plan), NumHard(plan))
     IN IF q.ok
        THEN /\ qres' = Respond(qres, 200, QuestionsBody(q.val, qclass))
             /\ qpc' = "done"
        ELSE QuestionsFail(ERR_TYPE)
  /\ UNCHANGED <<qreq, qjd, qclass, qraw>>
  /\ UNCHANGED notQuestions

InitQuestions ==
  /\ geminiKey = TRUE
  /\ HandlerIdle /\ RecoveryIdle /\ GenerateIdle /\ HelpersIdle /\ DetectIdle /\ ParallelIdle /\ UploadsIdle /\ QuestionsIdle /\ AnalyzeCvIdle /\ DiffIdle

NextQuestions ==
  \/ QuestionsReceive
  \/ QuestionsFetch
  \/ QuestionsClassify
  \/ QuestionsGenerate
  \/ QuestionsGenerateFails
  \/ QuestionsAnswer

SpecQuestions == InitQuestions /\ [][NextQuestions]_vars

(***************************************************************************)
(* Properties of POST /api/generate-questions (checked under SpecQuestions)*)
(***************************************************************************)
QuestionsAnswered == qpc = "done" /\ qres.status = 200
\* the lists of the response and of the reply of the model
AnswerList(key) == Get(Get(qres.body, K_pytania), key)
ReplyList(key) == OptGet(OptGet(qout.val, K_pytania), key)
PlanCount(key) ==
  IF key = K_kompetencje_miekkie THEN NumSoft(PlanOfQuestions(qreq.plan))
  ELSE NumHard(PlanOfQuestions(qreq.plan))

\* the text an item of the model's list stands for: falsy items stand for
\* the empty text
ItemText(item) == trim(JSString(IF Truthy(item) THEN item ELSE Str(<<>>)))
\* the places of the model's list whose items remain
Remaining(list) ==
  IF IsArray(list) THEN {i \in 1..Len(list.items) : ItemText(list.items[i]) # <<>>} ELSE {}
\* the j-th of a set of places
Nth(places, j) == CHOOSE i \in places : Cardinality({h \in places : h < i}) = j - 1

\* the answer's list under key is the first min(k, N) remaining items of the
\* model's list, in order, each non-empty and of at most LIMITS.itemChars + 1
\* characters
ListSizedPerPlan(key) ==
  LET answer == AnswerList(key).items
      places == Remaining(ReplyList(key))
      k == Cardinality(places)
      N == PlanCount(key)
  IN /\ IsArray(AnswerList(key))
     /\ Len(answer) = IF k < N THEN k ELSE N
     /\ \A j \in 1..Len(answer) :
          /\ IsString(answer[j])
          /\ Len(answer[j].str) > 0
          /\ Len(answer[j].str) <= LIMITS_itemChars + 1
          /\ LET item == ItemText(ReplyList(key).items[Nth(places, j)])
             IN IF Len(item) <= LIMITS_itemChars THEN answer[j].str = item
                ELSE SubSeq(answer[j].str, 1, LIMITS_itemChars)
                       = SubSeq(item, 1, LIMITS_itemChars)

\* C25: when the handler answers 200 for a reply that parsed to an object
\* whose pytania is an object, each of the two lists is the prefix of length
\* min(k, N) of the sanitized list of the model: never longer than N, never
\* padded, in the original order, every item non-empty and at most
\* LIMITS.itemChars + 1 characters long.
C25_QuestionListsSizedPerPlan ==
  (QuestionsAnswered /\ qout.ok /\ OptGet(qout.val, K_pytania).kind = "object") =>
    /\ ListSizedPerPlan(K_kompetencje_miekkie)
    /\ ListSizedPerPlan(K_kompetencje_twarde)

\* C25 witness: on the paid plan, of six soft items three remained and were
\* returned (fewer than 7, not padded), and of five hard items four, the
\* first one clamped
C25_Witness ==
  /\ QuestionsAnswered
  /\ qraw = Str(Q_MIXED)
  /\ PlanCount(K_kompetencje_miekkie) = 7
  /\ Len(AnswerList(K_kompetencje_miekkie).items) = 3
  /\ Len(AnswerList(K_kompetencje_twarde).items) = 4
  /\ Len(AnswerList(K_kompetencje_twarde).items[1].str) = LIMITS_itemChars + 1

\* C26 (as stated): whatever text the model replied, the handler answers
\* 200 with pytania.kompetencje_miekkie and pytania.kompetencje_twarde both
\* lists.
C26_ParseProblemsAbsorbed ==
  (qpc = "done" /\ qraw # Undefined) =>
    /\ qres.status = 200
    /\ IsArray(AnswerList(K_kompetencje_miekkie))
    /\ IsArray(AnswerList(K_kompetencje_twarde))

\* C26 witness: the model replied null and the handler answered 500
C26_Witness ==
  /\ qpc = "done"
  /\ qraw = Str(R_NULL)
  /\ qout.ok /\ qout.val = Null
  /\ qres.status = 500

(***************************************************************************)
(* POST /api/analyze-cv (server.js lines 311-363, part_002 lines 400-458)  *)
(***************************************************************************)
\* 'Brak pliku CV'
MSG_NO_CV_FILE ==
  <<"B", "r", "a", "k", " ", "p", "l", "i", "k", "u", " ", "C", "V">>
\* 'Błąd analizy CV'
MSG_CV_FAILED ==
  <<"B", "U+0142", "U+0105", "d", " ", "a", "n", "a", "l", "i", "z", "y", " ", "C",
    "V">>
\* 'Nie udało się poprawnie sparsować odpowiedzi modelu.'
CV_PARSE_FAILED_SUMMARY ==
  <<"N", "i", "e", " ", "u", "d", "a", "U+0142", "o", " ", "s", "i", "U+0119", " ",
    "p", "o", "p", "r", "a", "w", "n", "i", "e", " ", "s", "p", "a", "r", "s", "o",
    "w", "a", "U+0107", " ", "o", "d", "p", "o", "w", "i", "e", "d", "z", "i", " ",
    "m", "o", "d", "e", "l", "u", ".">>
\* the separator of the additional description
CV_ADDITIONAL_HEADER ==
  <<"\n", "\n", "[", "D", "O", "D", "A", "T", "K", "O", "W", "Y", " ", "O", "P", "I",
    "S", "]", "\n">>

\* the names the handler and the module bind (the same in the two files)
CvBindings ==
  {"req", "res", "uploadedFilePath", "cvText", "additionalDescription", "cvClass",
   "prompt", "llmRaw", "analysis", "parsed", "total", "LIMITS", "clampText",
   "extractAndParseJSON", "ensureAnalysisShape", "sanitizeStringArray",
   "extractTextFromCV", "classifyText", "generateWithFallback"}
\* the names the try block around the parse evaluates (server.js 339-342,
\* part_002 428-436)
UsedInTry(build) ==
  {"extractAndParseJSON", "llmRaw", "ensureAnalysisShape", "parsed", "analysis"}
    \cup IF build = "part_002"
         THEN {"sanitizeStringArray", "LIMITS", "numSoft", "numHard"}
         ELSE {}

\* the try/catch around the parse: the catch block runs when
\* extractAndParseJSON throws, when ensureAnalysisShape throws (null), and
\* when a name of the block is not bound (ReferenceError), in which case
\* analysis is already the shaped reply
ShapeCv(parsedReply, raw, build) ==
  LET shapedReply == IF parsedReply.ok THEN ensureAnalysisShape(parsedReply.val) ELSE Failed
      analysis == IF shapedReply.ok THEN shapedReply.val
                  ELSE ensureAnalysisShape(EmptyObj).val
  IN IF shapedReply.ok /\ UsedInTry(build) \subseteq CvBindings
     THEN analysis
     ELSE Put(Put(analysis, K_podsumowanie, Str(CV_PARSE_FAILED_SUMMARY)),
              K_rawResponse, Str(sliceTo(raw, RawResponseChars)))

\* the score, meta and warning_mismatch added to the analysis
FinishCv(analysis, class) ==
  LET dop == Get(analysis, K_dopasowanie)
      strong == Len(Get(dop, K_mocne_strony).items)
      total == strong + Len(Get(dop, K_obszary_do_poprawy).items)
      pct == IF total > 0 THEN RoundedPercent(strong, total) ELSE 0
      meta == Obj(<<K_industry_cv, K_role_cv>>,
                  <<Get(class, K_industry), Get(class, K_role_hint)>>)
  IN Put(Put(Put(analysis, K_dopasowanie_procentowe, Num(pct)), K_meta, meta),
         K_warning_mismatch, Bool(FALSE))

CvFailureBody(msg) == Obj(<<K_error, K_details>>, <<Str(MSG_CV_FAILED), Str(msg)>>)

\* the finally block
CvUnlinked == IF apath THEN "unlinked" ELSE atmp

\* the catch block followed by the finally block
CvFail(msg) ==
  /\ ares' = Respond(ares, 500, CvFailureBody(msg))
  /\ atmp' = CvUnlinked
  /\ apc' = "done"

\* multer stores the upload and express calls the handler
CvReceive ==
  /\ apc = "idle"
  /\ \E file \in BOOLEAN, add \in AdditionalDescriptions :
       /\ areq' = [file |-> file, additionalDescription |-> add]
       /\ atmp' = IF file THEN "present" ELSE "none"
  /\ apc' = "validate"
  /\ UNCHANGED <<abuild, apath, acvText, aclass, araw, aparsed, ares>>
  /\ UNCHANGED notAnalyzeCv

\* the file check and uploadedFilePath = req.file.path
CvValidate ==
  /\ apc = "validate"
  /\ IF ~areq.file
     THEN /\ ares' = Respond(ares, 400, ErrorBody(MSG_NO_CV_FILE))
          /\ apc' = "done"
          /\ UNCHANGED apath
     ELSE /\ apath' = TRUE
          /\ apc' = "extract"
          /\ UNCHANGED ares
  /\ UNCHANGED <<abuild, areq, atmp, acvText, aclass, araw, aparsed>>
  /\ UNCHANGED notAnalyzeCv

\* await extractTextFromCV resolves, then the additional description
CvExtract ==
  /\ apc = "extract"
  /\ LET add == IF IsString(areq.additionalDescription)
                THEN clampText(areq.additionalDescription.str,
                               LIMITS_additionalDescriptionChars)
                ELSE <<>>
         extracted == clampText(trim(CV_TEXT), LIMITS_cvChars)
     IN acvText' = IF Len(add) > 0 THEN extracted \o CV_ADDITIONAL_HEADER \o add
                   ELSE extracted
  /\ apc' = "classify"
  /\ UNCHANGED <<abuild, areq, atmp, apath, aclass, araw, aparsed, ares>>
  /\ UNCHANGED notAnalyzeCv

\* await extractTextFromCV rejects
CvExtractFails ==
  /\ apc = "extract"
  /\ CvFail(ERR_EXTRACT)
  /\ UNCHANGED <<abuild, areq, apath, acvText, aclass, araw, aparsed>>
  /\ UNCHANGED notAnalyzeCv

\* await classifyText(cvText, 'CV') resolves
CvClassify ==
  /\ apc = "classify"
  /\ \E c \in CvClasses : aclass' = c
  /\ apc' = "generate"
  /\ UNCHANGED <<abuild, areq, atmp, apath, acvText, araw, aparsed, ares>>
  /\ UNCHANGED notAnalyzeCv

\* await generateWithFallback(prompt) resolves
CvGenerate ==
  /\ apc = "generate"
  /\ \E r \in Replies : araw' = Str(r)
  /\ apc' = "parse"
  /\ UNCHANGED <<abuild, areq, atmp, apath, acvText, aclass, aparsed, ares>>
  /\ UNCHANGED notAnalyzeCv

\* await generateWithFallback(prompt) rejects
CvGenerateFails ==
  /\ apc = "generate"
  /\ CvFail(ERR_GENERATE)
  /\ UNCHANGED <<abuild, areq, apath, acvText, aclass, araw, aparsed>>
  /\ UNCHANGED notAnalyzeCv

\* the parse, the score, meta (which reads cvClass.industry), the response
\* and the finally block
CvAnswer ==
  /\ apc = "parse"
  /\ aparsed' = extractAndParseJSON(araw.str)
  /\ IF aclass.kind = "null"
     THEN CvFail(ERR_TYPE)
     ELSE /\ ares' = Respond(ares, 200,
                             SuccessBody(FinishCv(ShapeCv(aparsed', araw.str, abuild),
                                                  aclass)))
          /\ atmp' = CvUnlinked
          /\ apc' = "done"
  /\ UNCHANGED <<abuild, areq, apath, acvText, aclass, araw>>
  /\ UNCHANGED notAnalyzeCv

\* the server was started from either file
InitAnalyzeCv ==
  /\ geminiKey = TRUE
  /\ HandlerIdle /\ RecoveryIdle /\ GenerateIdle /\ HelpersIdle /\ DetectIdle /\ ParallelIdle /\ UploadsIdle /\ QuestionsIdle /\ DiffIdle
  /\ abuild \in Builds /\ CvRequestIdle

NextAnalyzeCv ==
  \/ CvReceive
  \/ CvValidate
  \/ CvExtract
  \/ CvExtractFails
  \/ CvClassify
  \/ CvGenerate
  \/ CvGenerateFails
  \/ CvAnswer

SpecAnalyzeCv == InitAnalyzeCv /\ [][NextAnalyzeCv]_vars

(***************************************************************************)
(* The two endpoints that take a CV, one request at a time                 *)
(***************************************************************************)
ReceiveMultiple == apc = "idle" /\ ReceiveAny
ReceiveSingle == pc = "idle" /\ CvReceive

NextEither ==
  \/ ReceiveMultiple
  \/ Validate
  \/ ExtractCV
  \/ ExtractCVFails
  \/ FetchJDs
  \/ ClassifyCV
  \/ ClassifyJD
  \/ Generate
  \/ GenerateFails
  \/ Answer
  \/ ReceiveSingle
  \/ CvValidate
  \/ CvExtract
  \/ CvExtractFails
  \/ CvClassify
  \/ CvGenerate
  \/ CvGenerateFails
  \/ CvAnswer

SpecEither == InitAnalyzeCv /\ [][NextEither]_vars

\* a response that reports a failure
ErrorAnswer(r) ==
  /\ r.status \in 400..599
  /\ IsString(Get(r.body, K_error))
  /\ IsString(Get(r.body, K_details))
  /\ Get(r.body, K_status) = Undefined
  /\ Get(r.body, K_analysis) = Undefined

\* the request ended at the await of extractTextFromCV or of
\* generateWithFallback
MultipleFailed ==
  pc = "done" /\ uploadedFilePath /\ (cvText = <<>> \/ (numSoft > 0 /\ llmRaw = Undefined))
SingleFailed ==
  apc = "done" /\ apath /\ (acvText = <<>> \/ (aclass # Undefined /\ araw = Undefined))

\* C24: a request to either endpoint whose extraction or generation raised
\* is answered with a 4xx/5xx status and a body with an error and a details
\* field, and with neither a status nor an analysis.
C24_FailuresAnsweredAsErrors ==
  /\ MultipleFailed => ErrorAnswer(res)
  /\ SingleFailed => ErrorAnswer(ares)

\* C24 witness: generateWithFallback raised in POST /api/analyze-cv and the
\* request was answered 500 with the details of the error
C24_Witness ==
  /\ SingleFailed
  /\ acvText # <<>>
  /\ ares.status = 500
  /\ Get(ares.body, K_details) = Str(ERR_GENERATE)

\* the analysis of the response of POST /api/analyze-cv
CvAnalysis == Get(ares.body, K_analysis)

\* C28 (as stated): whenever extractAndParseJSON succeeded on the reply, the
\* answer's podsumowanie is that of the parsed reply and there is no
\* rawResponse; the fixed summary appears only when extractAndParseJSON
\* raised.
C28_PlaceholderOnlyOnRecoveryFailure ==
  (apc = "done" /\ ares.status = 200 /\ aparsed.ok) =>
    /\ Get(CvAnalysis, K_podsumowanie) = OrElse(OptGet(aparsed.val, K_podsumowanie), Str(<<>>))
    /\ Get(CvAnalysis, K_rawResponse) = Undefined
    /\ Get(CvAnalysis, K_podsumowanie) # Str(CV_PARSE_FAILED_SUMMARY)

\* C28 witness: the reply was the JSON the prompt asks for, it was recovered,
\* and the answer carries the fixed summary and a rawResponse
C28_Witness ==
  /\ apc = "done" /\ ares.status = 200
  /\ araw.str \in WellFormedReplies
  /\ aparsed.ok
  /\ Get(aparsed.val, K_podsumowanie) = Str(OK_SUMMARY)
  /\ Get(CvAnalysis, K_podsumowanie) = Str(CV_PARSE_FAILED_SUMMARY)
  /\ IsString(Get(CvAnalysis, K_rawResponse))

(***************************************************************************)
(* Well-formed replies through the recovery (checked under SpecRecover)    *)
(***************************************************************************)
\* the recovery has ended, by a return or by the throw of line 168
RecoveryEnded == rpc \in {"raised", "returned", "shaped", "shapeRaised"}

\* JSON.parse of the trimmed reply, the value the reply states
Stated == JSONparse(trim(input))

\* C27 (as stated): for every reply whose trimmed text is already valid JSON,
\* extractAndParseJSON returns exactly the value JSON.parse gives for that
\* text, also when string values hold '//', '/*', typographic quotation
\* marks, or a comma followed by '}' or a backtick.
C27_WellFormedReplyPreserved ==
  (RecoveryEnded /\ Stated.ok) => (Returned /\ result.val = Stated.val)

\* C27 witness: the recovery raised on a reply that is a valid JSON object,
\* none of the four candidates having parsed after cleaning
C27_Witness ==
  /\ rpc = "raised"
  /\ Stated.ok /\ Stated.val.kind = "object"
  /\ Len(tried) = 4
  /\ \A k \in 1..4 : ~tried[k].ok

(***************************************************************************)
(* classifyText in POST /api/analyze-cv-multiple: the request with the     *)
(* classes computed from the outcomes of the classification call           *)
(***************************************************************************)
ClassifyCVOutcome == ClassifyCVFrom({classifyText(o) : o \in ClassifierOutcomes})
ClassifyJDOutcome == ClassifyJDFrom({classifyText(o) : o \in ClassifierOutcomes})

NextClassify ==
  \/ ReceiveAny
  \/ Validate
  \/ ExtractCV
  \/ ExtractCVFails
  \/ FetchJDs
  \/ ClassifyCVOutcome
  \/ ClassifyJDOutcome
  \/ Generate
  \/ GenerateFails
  \/ Answer

SpecClassify == InitFanOut /\ [][NextClassify]_vars

\* industry, role_hint and seniority can be read on the value, and industry
\* is a string
ReadableClass(c) ==
  /\ c.kind = "object"
  /\ IsString(Get(c, K_industry))

\* C29 (as stated): whatever the classification call came to, classifyText
\* returned an object on which industry, role_hint and seniority can be read,
\* with industry set, and no request ends with the TypeError of a read of
\* cvClass.industry or jdClass.industry.
C29_ClassifierNeverFailsRequest ==
  /\ cvClass # Undefined => ReadableClass(cvClass)
  /\ jdClass # Undefined => ReadableClass(jdClass)
  /\ ~(pc = "done" /\ res.body = FailureBody(ERR_TYPE))

\* C29 witness: the classifier's reply for the postings was the text null,
\* classifyText returned null, and the request ended with status 500 at the
\* read of jdClass.industry
C29_Witness ==
  /\ pc = "done"
  /\ jdClass = classifyText(Resolved(R_NULL))
  /\ jdClass = Null
  /\ ReadableClass(cvClass)
  /\ res.status = 500 /\ res.body = FailureBody(ERR_TYPE)

(***************************************************************************)
(* POST /api/jd-diff (src/unnamed/part_002, lines 637-730) and             *)
(* POST /api/jd-diff-from-text (lines 734-800)                             *)
(***************************************************************************)
\* DIFF_LIMITS.maxJobs
DIFF_LIMITS_maxJobs == 5
\* the topN of the keywords of fitScoreFromKeywords
FitTopN == 120
\* the slice(0, 5) of top_missing
TopMissingCount == 5
\* the most postings of a request
MaxJobs == 2

\* dedupKeepOrder (lines 341-345): the trimmed items, without the empty ones
\* and without the repeats
dedupKeepOrder(arr) ==
  LET trimmed == [i \in 1..Len(arr) |-> trim(arr[i])]
      kept == {i \in 1..Len(arr) :
                 /\ Len(trimmed[i]) > 0
                 /\ \A j \in 1..(i - 1) : trimmed[j] # trimmed[i]}
      rank(i) == 1 + Cardinality({j \in kept : j < i})
  IN [k \in 1..Cardinality(kept) |-> trimmed[CHOOSE i \in kept : rank(i) = k]]

\* arr.includes(x)
Includes(arr, x) == \E i \in 1..Len(arr) : arr[i] = x

\* intersectMany (lines 347-350): the items of the first array that every
\* other array includes
intersectMany(arrays) ==
  IF Len(arrays) = 0 THEN <<>>
  ELSE SelectSeq(arrays[1], LAMBDA x : \A k \in 2..Len(arrays) : Includes(arrays[k], x))

\* uniqueBy of one posting (lines 671-674, 757-760): its requirements that no
\* other posting has
uniqueOf(arrays, idx) ==
  SelectSeq(arrays[idx],
            LAMBDA r : \A j \in 1..Len(arrays) : j # idx => ~Includes(arrays[j], r))

\* new Set(simpleKeywords(text, { topN: 120 }))
KeywordSet(s) ==
  LET kw == simpleKeywords(s, DefaultMinLen, FitTopN)
  IN {kw[i] : i \in 1..Len(kw)}

\* fitScoreFromKeywords (lines 369-375)
fitScoreFromKeywords(cv, reqs) ==
  LET cvKW == KeywordSet(cv)
      reqKW == KeywordSet(join(reqs, <<" ">>))
      overlap == Cardinality(reqKW \cap cvKW)
      denom == IF Cardinality(reqKW) > 1 THEN Cardinality(reqKW) ELSE 1
  IN RoundedPercent(overlap, denom)

\* top_missing without the filter
topMissing_Unfiltered(cv, requirements) ==
  IF Len(cv) > 0 THEN sliceTo(requirements, TopMissingCount) ELSE <<>>

\* top_missing (lines 684-688, 769-773): the filter scores each requirement
\* against itself, the CV text only decides whether the list is computed
topMissing(cv, requirements) ==
  IF Len(cv) > 0
  THEN sliceTo(SelectSeq(requirements, LAMBDA r : fitScoreFromKeywords(r, <<r>>) = 0),
               TopMissingCount)
  ELSE <<>>

\* one entry of perJob (lines 677-690, 762-775); fit_score is null without a CV
perJob(cv, requirements) ==
  [total_requirements |-> Len(requirements),
   fit_score |-> IF Len(cv) > 0 THEN Num(fitScoreFromKeywords(cv, requirements))
                 ELSE Null,
   top_missing |-> topMissing(cv, requirements)]

\* 'python django'
REQ_PYTHON ==   <<"p", "y", "t", "h", "o", "n", " ", "d", "j", "a", "n", "g", "o">>
\* 'java spring'
REQ_JAVA ==   <<"j", "a", "v", "a", " ", "s", "p", "r", "i", "n", "g">>
\* 'C#'
REQ_CSHARP ==   <<"C", "#">>
\* 'AI'
REQ_AI ==   <<"A", "I">>
\* 'UX'
REQ_UX ==   <<"U", "X">>
\* 'QA'
REQ_QA ==   <<"Q", "A">>
\* 'BI'
REQ_BI ==   <<"B", "I">>
\* 'C++'
REQ_CPP ==   <<"C", "+", "+">>
\* 'oraz dla'
REQ_STOPWORDS ==   <<"o", "r", "a", "z", " ", "d", "l", "a">>
ReqPool ==
  <<REQ_PYTHON, REQ_CSHARP, REQ_AI, REQ_JAVA, REQ_UX, REQ_QA, REQ_BI, REQ_CPP, REQ_STOPWORDS>>
Reverse(s) == [i \in 1..Len(s) |-> s[Len(s) + 1 - i]]
\* what llmExtractRequirements can resolve to: sanitized lists of strings,
\* repeats and padded items included
RequirementLists ==
  {<<>>, SubSeq(ReqPool, 1, 4), ReqPool, Reverse(ReqPool),
   <<REQ_AI, REQ_PYTHON, REQ_AI, REQ_AI \o <<" ">> >>}

\* 'python developer, sql'
DIFF_CV ==   <<"p", "y", "t", "h", "o", "n", " ", "d", "e", "v", "e", "l", "o", "p", "e", "r",
    ",", " ", "s", "q", "l">>
DiffCvTexts == {<<>>, DIFF_CV, <<" ">>}
DiffEndpoints == {"jd-diff", "jd-diff-from-text"}

\* 'Dozwolone 2-5 ogloszen.' and its counterparts (lines 643-646, 741-743)
MSG_DIFF_COUNT ==   <<"j", "o", "b", "s">>
\* 'Blad porownania ogloszen' (lines 724, 797)
MSG_DIFF_FAILED ==   <<"d", "i", "f", "f">>
DiffError(code, msg) ==
  [sent |-> jres.sent + 1, status |-> code, body |-> [NoDiff EXCEPT !.error = msg]]
\* the finally block of /api/jd-diff (lines 725-727)
DiffUnlinked == IF jfile = "stored" THEN "unlinked" ELSE jfile

\* the request arrives; the number of postings is checked (lines 640-646,
\* 736-743)
DiffReceive ==
  /\ jpc = "idle"
  /\ \E e \in DiffEndpoints, n \in 0..MaxJobs, f \in BOOLEAN, cv \in DiffCvTexts :
       /\ f => e = "jd-diff"
       /\ f => cv = <<>>
       /\ jreq' = [endpoint |-> e, jobs |-> n, file |-> f, cvText |-> cv]
       /\ jfile' = IF f THEN "stored" ELSE "none"
       /\ IF n < 2 \/ n > DIFF_LIMITS_maxJobs
          THEN /\ jres' = DiffError(400, MSG_DIFF_COUNT)
               /\ jpc' = "done"
          ELSE /\ jpc' = "cv"
               /\ UNCHANGED jres
  /\ UNCHANGED <<jcv, jitems>>
  /\ UNCHANGED notDiff

\* cvText: await extractTextFromCV for an upload, the clamped cvText of the
\* body otherwise (lines 649-655, 738)
DiffReadCv ==
  /\ jpc = "cv"
  /\ \E extracted \in DiffCvTexts :
       jcv' = IF jreq.file THEN extracted ELSE clampText(jreq.cvText, LIMITS_cvChars)
  /\ jpc' = "extract"
  /\ UNCHANGED <<jreq, jfile, jitems, jres>>
  /\ UNCHANGED notDiff

\* extractTextFromCV rejects: catch and finally (lines 722-727)
DiffReadCvFails ==
  /\ jpc = "cv"
  /\ jreq.file
  /\ jres' = DiffError(500, MSG_DIFF_FAILED)
  /\ jfile' = DiffUnlinked
  /\ jpc' = "done"
  /\ UNCHANGED <<jreq, jcv, jitems>>
  /\ UNCHANGED notDiff

\* one turn of the loop: dedupKeepOrder(await llmExtractRequirements(text))
\* (lines 659-664, 746-751)
DiffExtract ==
  /\ jpc = "extract"
  /\ \E reqs \in RequirementLists : jitems' = Append(jitems, dedupKeepOrder(reqs))
  /\ jpc' = IF Len(jitems') = jreq.jobs THEN "answer" ELSE "extract"
  /\ UNCHANGED <<jreq, jfile, jcv, jres>>
  /\ UNCHANGED notDiff

\* generateWithFallback rejects inside llmExtractRequirements
DiffExtractFails ==
  /\ jpc = "extract"
  /\ jres' = DiffError(500, MSG_DIFF_FAILED)
  /\ jfile' = DiffUnlinked
  /\ jpc' = "done"
  /\ UNCHANGED <<jreq, jcv, jitems>>
  /\ UNCHANGED notDiff

\* common, uniqueBy, perJob and the response (lines 666-721, 753-795), then
\* the finally block
DiffAnswer ==
  /\ jpc = "answer"
  /\ jres' = [sent |-> jres.sent + 1, status |-> 200,
              body |-> [error |-> <<>>,
                        common |-> intersectMany(jitems),
                        unique |-> [i \in 1..Len(jitems) |-> uniqueOf(jitems, i)],
                        per_job |-> [i \in 1..Len(jitems) |-> perJob(jcv, jitems[i])]]]
  /\ jfile' = DiffUnlinked
  /\ jpc' = "done"
  /\ UNCHANGED <<jreq, jcv, jitems>>
  /\ UNCHANGED notDiff

InitDiff ==
  /\ geminiKey = TRUE
  /\ HandlerIdle /\ RecoveryIdle /\ GenerateIdle /\ HelpersIdle /\ DetectIdle /\ ParallelIdle /\ UploadsIdle /\ QuestionsIdle /\ AnalyzeCvIdle /\ DiffIdle

NextDiff ==
  \/ DiffReceive
  \/ DiffReadCv
  \/ DiffReadCvFails
  \/ DiffExtract
  \/ DiffExtractFails
  \/ DiffAnswer

SpecDiff == InitDiff /\ [][NextDiff]_vars

\* the request was answered with the comparison and a CV text was supplied
DiffAnsweredWithCv == jpc = "done" /\ jres.status = 200 /\ Len(jcv) > 0

\* the place of a requirement in the (repeat-free) list of its posting
PlaceIn(requirements, r) == CHOOSE i \in 1..Len(requirements) : requirements[i] = r

\* the requirement shares a keyword with the CV text
SharesKeyword(r, cv) == KeywordSet(r) \cap KeywordSet(cv) # {}

\* C30: when a CV text is supplied, top_missing of a posting holds at most 5
\* of that posting's requirements, in their order, and only requirements none
\* of whose keywords occurs among the keywords of the CV text.
C30_TopMissingSharesNoKeyword ==
  DiffAnsweredWithCv =>
    \A i \in 1..Len(jitems) :
      LET missing == jres.body.per_job[i].top_missing
      IN /\ Len(missing) <= TopMissingCount
         /\ \A k \in 1..Len(missing) : Includes(jitems[i], missing[k])
         /\ \A k \in 1..Len(missing) : \A l \in (k + 1)..Len(missing) :
              PlaceIn(jitems[i], missing[k]) < PlaceIn(jitems[i], missing[l])
         /\ \A k \in 1..Len(missing) : ~SharesKeyword(missing[k], jcv)

\* C30 witness: a CV text was supplied, and a posting has a requirement that
\* shares a keyword with it, which is not listed, and more than 5 other
\* requirements, of which 5 are listed
C30_Witness ==
  /\ DiffAnsweredWithCv
  /\ \E i \in 1..Len(jitems) :
       /\ \E k \in 1..Len(jitems[i]) : SharesKeyword(jitems[i][k], jcv)
       /\ Len(jitems[i]) > TopMissingCount + 1
       /\ Len(jres.body.per_job[i].top_missing) = TopMissingCount

====
